---- MODULE Spec2Model ----
(***************************************************************************)
(* Dispatch, fan-out and completion-correlation pipeline of the match      *)
(* scorer: Router Lambda (MSK -> SNS), per-challenge Submission Watcher    *)
(* Lambda (SQS -> ECS RunTask) and Completion Lambda (ECS task stopped ->  *)
(* SQS retry message).                                                     *)
(***************************************************************************)
EXTENDS Integers, Sequences, FiniteSets, Bags, TLC

(***************************************************************************)
(* Bounds of the model.                                                    *)
(***************************************************************************)
MaxBatch == 2          \* records in one Router event
MaxQueue == 2          \* messages held by one per-challenge queue
MaxJobs == 2           \* ECS tasks alive at once
MaxNotifications == 1  \* completion events waiting for the Completion Lambda

(***************************************************************************)
(* JavaScript values.  A value is undefined, null, a string or a number;   *)
(* a number is an integer or NaN.                                          *)
(***************************************************************************)
Undefined == [t |-> "undefined"]
JsNull == [t |-> "null"]
Str(s) == [t |-> "string", s |-> s]
Num(n) == [t |-> "number", nan |-> FALSE, n |-> n]
NaN == [t |-> "number", nan |-> TRUE, n |-> 0]

\* JavaScript truthiness: undefined, null, "", 0 and NaN are falsy.
Truthy(v) ==
    CASE v.t = "undefined" -> FALSE
      [] v.t = "null" -> FALSE
      [] v.t = "string" -> v.s # ""
      [] v.t = "number" -> ~v.nan /\ v.n # 0
      [] OTHER -> TRUE

\* a >= b on JavaScript numbers: every comparison with NaN is false.
NumGe(a, b) == ~a.nan /\ ~b.nan /\ a.n >= b.n

\* a + k for an integer k.
NumPlus(a, k) == IF a.nan THEN NaN ELSE Num(a.n + k)

\* String(number)
NumToString(a) == IF a.nan THEN "NaN" ELSE ToString(a.n)

Digits == {"0", "1", "2", "3", "4", "5", "6", "7", "8", "9"}

DigitVal(c) ==
    CASE c = "0" -> 0 [] c = "1" -> 1 [] c = "2" -> 2 [] c = "3" -> 3
      [] c = "4" -> 4 [] c = "5" -> 5 [] c = "6" -> 6 [] c = "7" -> 7
      [] c = "8" -> 8 [] c = "9" -> 9

CharAt(s, i) == SubSeq(s, i, i)

\* Length of the longest prefix of digits of s starting at position i.
RECURSIVE DigitRun(_, _)
DigitRun(s, i) ==
    IF i <= Len(s) /\ CharAt(s, i) \in Digits THEN 1 + DigitRun(s, i + 1) ELSE 0

RECURSIVE DigitsValue(_, _, _, _)
DigitsValue(s, i, n, acc) ==
    IF n = 0 THEN acc
    ELSE DigitsValue(s, i + 1, n - 1, acc * 10 + DigitVal(CharAt(s, i)))

\* parseInt(s, 10): optional sign, then the longest run of decimal digits;
\* NaN when there is no digit.  (Leading white space does not occur here.)
ParseInt(s) ==
    LET signed == Len(s) >= 1 /\ CharAt(s, 1) \in {"-", "+"}
        start == IF signed THEN 2 ELSE 1
        n == DigitRun(s, start)
        mag == DigitsValue(s, start, n, 0)
    IN IF n = 0 THEN NaN
       ELSE IF signed /\ CharAt(s, 1) = "-" THEN Num(0 - mag) ELSE Num(mag)

(***************************************************************************)
(* Router Lambda: UUID validation.                                         *)
(***************************************************************************)
HexChars == Digits \cup {"a", "b", "c", "d", "e", "f", "A", "B", "C", "D", "E", "F"}

UuidDashes == {9, 14, 19, 24}

\* /^[0-9a-f]{8}-[0-9a-f]{4}-[0-9a-f]{4}-[0-9a-f]{4}-[0-9a-f]{12}$/i
UUID_REGEX(s) ==
    /\ Len(s) = 36
    /\ \A i \in 1..36 :
          IF i \in UuidDashes THEN CharAt(s, i) = "-" ELSE CharAt(s, i) \in HexChars

\* Mutant: the format check is dropped.
isValidUuid_anyString(value) == value.t = "string"

isValidUuid(value) == value.t = "string" /\ UUID_REGEX(value.s)

(***************************************************************************)
(* Identifiers used as inputs.                                             *)
(***************************************************************************)
SUB1 == "11111111-1111-1111-1111-111111111111"
SUB2 == "AAAAAAAA-bbbb-CCCC-dddd-EEEEEEEEEEEE"
CH1 == "22222222-2222-2222-2222-222222222222"
CH2 == "33333333-3333-3333-3333-333333333333"
CH_INACTIVE == "44444444-4444-4444-4444-444444444444"
CH_UNKNOWN == "55555555-5555-5555-5555-555555555555"
CH_NOQUEUE == "66666666-6666-6666-6666-666666666666"

QUEUE1 == "https://sqs/challenge-one-queue"
QUEUE2 == "https://sqs/challenge-two-queue"
QUEUE3 == "https://sqs/challenge-three-queue"

QueueUrls == {QUEUE1, QUEUE2, QUEUE3}

(***************************************************************************)
(* Challenge mapping table (DynamoDB): challengeId -> item.  An absent key *)
(* has no item.                                                            *)
(***************************************************************************)
NoItem == [found |-> FALSE]

MappingTable(challengeId) ==
    CASE challengeId = CH1 -> [found |-> TRUE, active |-> TRUE, queueUrl |-> QUEUE1]
      [] challengeId = CH2 -> [found |-> TRUE, active |-> TRUE, queueUrl |-> QUEUE2]
      [] challengeId = CH_INACTIVE -> [found |-> TRUE, active |-> FALSE, queueUrl |-> QUEUE3]
      [] challengeId = CH_NOQUEUE -> [found |-> TRUE, active |-> FALSE, queueUrl |-> ""]
      [] OTHER -> NoItem

\* SNS subscriptions: the queue whose filter policy allows the challengeId
\* attribute; "none" when no subscription matches.
SubscribedQueue(attr) ==
    CASE attr = CH1 -> QUEUE1
      [] attr = CH2 -> QUEUE2
      [] attr = CH_INACTIVE -> QUEUE3
      [] OTHER -> "none"

(***************************************************************************)
(* Texts and JSON.  A text either is not JSON or denotes one JSON value;   *)
(* a message is null or an object with an optional payload and retryInfo.  *)
(***************************************************************************)
NotJson == [json |-> FALSE]
JSONStringify(v) == [json |-> TRUE, parsed |-> v]

\* JSON.parse: throws on a text that is not JSON.
JSONParse(text) ==
    IF text.json THEN [ok |-> TRUE, value |-> text.parsed] ELSE [ok |-> FALSE]

PayloadObj(sub, ch, st) ==
    [t |-> "object", submissionId |-> sub, challengeId |-> ch, scorerType |-> st]
MessageObj(payload, retryInfo) ==
    [t |-> "object", payload |-> payload, retryInfo |-> retryInfo]

\* message?.payload?.<field>
PayloadOf(message) == IF message.t = "object" THEN message.payload ELSE Undefined
SubmissionIdOf(message) ==
    IF PayloadOf(message).t = "object" THEN PayloadOf(message).submissionId ELSE Undefined
ChallengeIdOf(message) ==
    IF PayloadOf(message).t = "object" THEN PayloadOf(message).challengeId ELSE Undefined

\* Buffer.from(text).toString('base64') and its inverse
\* Buffer.from(value, 'base64').toString('utf-8'), which throws a TypeError
\* when the value is not a string.
Base64Encode(text) == [t |-> "base64", text |-> text]
Base64Decode(value) ==
    IF value.t = "base64" THEN [ok |-> TRUE, text |-> value.text] ELSE [ok |-> FALSE]

(***************************************************************************)
(* Inputs of the Router: the values a Kafka record may carry.              *)
(***************************************************************************)
SubmissionMsg(sub, ch) == MessageObj(PayloadObj(sub, ch, Undefined), Undefined)

ValidValues ==
    { Base64Encode(JSONStringify(SubmissionMsg(Str(s), Str(c)))) :
        s \in {SUB1, SUB2}, c \in {CH1, CH2} } \ { Base64Encode(JSONStringify(SubmissionMsg(Str(SUB2), Str(CH2)))) }

RoutingMissValues ==
    { Base64Encode(JSONStringify(SubmissionMsg(Str(SUB1), Str(c)))) :
        c \in {CH_INACTIVE, CH_UNKNOWN} }

InvalidIdValues ==
    { Base64Encode(JSONStringify(SubmissionMsg(s, Str(CH1)))) :
        s \in {Undefined, Str("invalid-uuid"), Num(123)} }
    \cup
    { Base64Encode(JSONStringify(SubmissionMsg(Str(SUB1), c))) :
        c \in {Undefined, Str("not-a-uuid"),
               Str("2222222g-2222-2222-2222-222222222222")} }
    \cup
    { Base64Encode(JSONStringify(JsNull)) }

UnparsableValues == { Undefined, Base64Encode(NotJson) }

RouterValues == ValidValues \cup RoutingMissValues \cup InvalidIdValues \cup UnparsableValues

TOPIC == "submission.notification.create"

KafkaRecord(value, pos) ==
    [topic |-> TOPIC, partition |-> 0, offset |-> 99 + pos, value |-> value]

\* `${record.topic}-${record.partition}-${record.offset}`
ItemIdentifier(record) ==
    record.topic \o "-" \o ToString(record.partition) \o "-" \o ToString(record.offset)

VARIABLES
    rPhase,        \* Router handler: "idle", "running" or "returned"
    rRecords,      \* records of the event being handled
    rTask,         \* per record: the processRecord promise
    snsCalls,      \* PublishCommands sent during this invocation
    rReturn,       \* batchItemFailures returned by the last invocation
    ingress,       \* events the MSK event source has yet to deliver
    queues,        \* per-challenge SQS queues: queue URL -> bag of messages
    dlq,           \* dead-letter queue of the worker's queue
    wPc,           \* Worker handler: position in the handler
    wCtx,          \* "preload" (handler prologue) or "record" (processRecord)
    wRecords,      \* SQS records of the event being handled
    wIdx,          \* index of the record being processed
    wScIdx,        \* index of the scorer being configured and launched
    wResults,      \* per processed record: success, and the path taken
    wReturn,       \* batchItemFailures returned by the last invocation
    ecsCalls,      \* RunTaskCommands sent during this invocation
    challengeConfigCache, \* null or the challenge configuration
    scorerConfigsCache,   \* scorer types whose configuration is cached
    tokenCache,    \* null or the cached access token
    tokenExpiry,   \* null or the cached token's expiry (ms)
    wInvocations,  \* handler invocations of this process, up to MaxInvocations
    authCalls,     \* requests this process has sent to the Auth0 proxy
    coldStart,     \* module-load preload: "cfgWait", "done" or "failed"
    now,           \* Date.now() (ms)
    ssmScorers,    \* the scorers listed by the challenge config in SSM
    jobs,          \* ECS tasks running
    notifications, \* ECS Task State Change events not yet handled
    tasksStarted,  \* ECS tasks started, where the specification counts them
    cLast,         \* last Completion invocation: event, sent messages, response
    cPrev,         \* the Completion invocation before the last
    retriesSent    \* retry messages sent, where the specification counts them

routerVars == <<rPhase, rRecords, rTask, snsCalls, rReturn, ingress>>
brokerVars == <<queues, dlq>>
cacheVars == <<challengeConfigCache, scorerConfigsCache, tokenCache, tokenExpiry>>
handlerVars == <<wPc, wCtx, wRecords, wIdx, wScIdx, wResults, wReturn>>
processVars == <<wInvocations, authCalls, coldStart>>
workerVars == <<handlerVars, ecsCalls, cacheVars, processVars>>
envVars == <<now, ssmScorers>>
jobVars == <<jobs, notifications, tasksStarted>>
completionVars == <<cLast, cPrev, retriesSent>>
vars == <<routerVars, brokerVars, workerVars, envVars, jobVars, completionVars>>

(***************************************************************************)
(* SQS messages.  With raw message delivery the body is the published      *)
(* text and the SNS message attributes become SQS message attributes.      *)
(***************************************************************************)
\* origin and cause record where the message comes from: the Router, or the
\* Completion Lambda for a failed job whose message carried retry count cause.
SqsMessage(body, retryCountAttr, scorerTypeAttr, challengeIdAttr, origin, cause) ==
    [body |-> body,
     RetryCount |-> retryCountAttr,
     ScorerType |-> scorerTypeAttr,
     challengeId |-> challengeIdAttr,
     receiveCount |-> 0,
     origin |-> origin,
     cause |-> cause]

QueueSize(q) == BagCardinality(queues[q])

\* Mutant: a message equal to one already in the queue is dropped.
SnsDeliver_dedup(qs, body, attr) ==
    LET q == SubscribedQueue(attr)
    IN IF q = "none" THEN qs
       ELSE [qs EXCEPT ![q] = SetToBag(BagToSet(@) \cup
                                       {SqsMessage(body, Undefined, Undefined,
                                                   Str(attr), "router", NaN)})]

\* The topic delivers a published message to the queue whose filter matches.
SnsDeliver(qs, body, attr) ==
    LET q == SubscribedQueue(attr)
    IN IF q = "none" THEN qs
       ELSE [qs EXCEPT ![q] = @ (+) SetToBag({SqsMessage(body, Undefined, Undefined,
                                                         Str(attr), "router", NaN)})]

(***************************************************************************)
(* Router Lambda.                                                          *)
(***************************************************************************)
TaskDone(success, lookupError, publishError) ==
    [pc |-> "done", success |-> success,
     lookupError |-> lookupError, publishError |-> publishError]
TaskAwait(pc) ==
    [pc |-> pc, success |-> FALSE, lookupError |-> FALSE, publishError |-> FALSE]

\* processRecord up to its first await: decode, parse, validate.  The result
\* is the settled promise, or the promise suspended on the DynamoDB lookup.
processRecordStart(record) ==
    LET decoded == Base64Decode(record.value)
    IN IF ~decoded.ok THEN TaskDone(FALSE, FALSE, FALSE)
       ELSE LET parsed == JSONParse(decoded.text)
            IN IF ~parsed.ok THEN TaskDone(FALSE, FALSE, FALSE)
               ELSE LET submissionId == SubmissionIdOf(parsed.value)
                        challengeId == ChallengeIdOf(parsed.value)
                    IN IF ~Truthy(submissionId) THEN TaskDone(TRUE, FALSE, FALSE)
                       ELSE IF ~Truthy(challengeId) THEN TaskDone(TRUE, FALSE, FALSE)
                       ELSE IF ~isValidUuid(submissionId) THEN TaskDone(TRUE, FALSE, FALSE)
                       ELSE IF ~isValidUuid(challengeId) THEN TaskDone(TRUE, FALSE, FALSE)
                       ELSE TaskAwait("lookup")

RecordMessage(record) == JSONParse(Base64Decode(record.value).text).value

\* Mutant: any item found counts as active.
isChallengeActive_found(challengeId, lookupError) ==
    IF lookupError THEN FALSE ELSE MappingTable(challengeId).found

\* isChallengeActive: a lookup error is caught and reported as "not active".
isChallengeActive(challengeId, lookupError) ==
    IF lookupError THEN FALSE
    ELSE LET item == MappingTable(challengeId)
         IN IF ~item.found THEN FALSE ELSE item.active = TRUE

\* Mutant: the filter attribute carries the submission.
publishToSns_submissionAttr(i, message, challengeId) ==
    [rec |-> i, Message |-> JSONStringify(message), challengeId |-> SubmissionIdOf(message).s]

\* publishToSns: the PublishCommand carrying the message and its attribute.
publishToSns(i, message, challengeId) ==
    [rec |-> i, Message |-> JSONStringify(message), challengeId |-> challengeId]

Events ==
    UNION { [1..n -> RouterValues] : n \in 1..MaxBatch }

\* exports.handler, up to Promise.allSettled: every record's processRecord is
\* started in turn and runs to its first suspension.
RouterInvoke ==
    /\ rPhase \in {"idle", "returned"}
    /\ ingress # <<>>
    /\ LET ev == Head(ingress)
           records == [i \in 1..Len(ev) |-> KafkaRecord(ev[i], i)]
       IN /\ rRecords' = records
          /\ rTask' = [i \in 1..Len(ev) |-> processRecordStart(records[i])]
    /\ ingress' = Tail(ingress)
    /\ rPhase' = "running"
    /\ snsCalls' = <<>>
    /\ rReturn' = <<>>
    /\ UNCHANGED <<brokerVars, workerVars, envVars, jobVars, completionVars>>

\* The DynamoDB GetItem of record i answers (or fails); processRecord goes on
\* to its next suspension, the SNS publish, or settles.
RouterLookupDone(i, lookupError) ==
    /\ rPhase = "running"
    /\ i \in 1..Len(rRecords)
    /\ rTask[i].pc = "lookup"
    /\    LET message == RecordMessage(rRecords[i])
              challengeId == ChallengeIdOf(message).s
              active == isChallengeActive(challengeId, lookupError)
          IN IF ~active
             THEN /\ rTask' = [rTask EXCEPT ![i] = TaskDone(TRUE, lookupError, FALSE)]
                  /\ UNCHANGED snsCalls
             ELSE /\ rTask' = [rTask EXCEPT ![i] = TaskAwait("publish")]
                  /\ snsCalls' = Append(snsCalls, publishToSns(i, message, challengeId))
    /\ UNCHANGED <<rPhase, rRecords, rReturn, ingress>>
    /\ UNCHANGED <<brokerVars, workerVars, envVars, jobVars, completionVars>>

\* The SNS publish of record i succeeds (the topic delivers the message) or
\* throws (processRecord's catch reports the record as failed).
RouterPublishDone(i, publishError) ==
    /\ rPhase = "running"
    /\ i \in 1..Len(rRecords)
    /\ rTask[i].pc = "publish"
    /\ LET call == CHOOSE c \in { snsCalls[k] : k \in 1..Len(snsCalls) } : c.rec = i
       IN IF ~publishError
          THEN /\ QueueSize(SubscribedQueue(call.challengeId)) < MaxQueue
               /\ queues' = SnsDeliver(queues, call.Message, call.challengeId)
               /\ rTask' = [rTask EXCEPT ![i] = TaskDone(TRUE, FALSE, FALSE)]
          ELSE /\ rTask' = [rTask EXCEPT ![i] = TaskDone(FALSE, FALSE, TRUE)]
               /\ UNCHANGED queues
    /\ UNCHANGED <<rPhase, rRecords, snsCalls, rReturn, ingress>>
    /\ UNCHANGED <<dlq, workerVars, envVars, jobVars, completionVars>>

\* Mutant: one failed record fails the whole batch.
CollectFailures_wholeBatch(records, tasks, i) ==
    IF \A k \in 1..Len(records) : tasks[k].success THEN <<>>
    ELSE [k \in 1..Len(records) |-> [itemIdentifier |-> ItemIdentifier(records[k])]]

\* The failures collected from the settled promises, in record order.
RECURSIVE CollectFailures(_, _, _)
CollectFailures(records, tasks, i) ==
    IF i > Len(records) THEN <<>>
    ELSE (IF tasks[i].success THEN <<>>
          ELSE <<[itemIdentifier |-> ItemIdentifier(records[i])]>>)
         \o CollectFailures(records, tasks, i + 1)

\* Promise.allSettled resolves once every promise has settled; the handler
\* returns the batch item failures.
RouterReturn ==
    /\ rPhase = "running"
    /\ \A i \in 1..Len(rRecords) : rTask[i].pc = "done"
    /\ rReturn' = CollectFailures(rRecords, rTask, 1)
    /\ rPhase' = "returned"
    /\ UNCHANGED <<rRecords, rTask, snsCalls, ingress>>
    /\ UNCHANGED <<brokerVars, workerVars, envVars, jobVars, completionVars>>

RouterNext ==
    \/ RouterInvoke
    \/ \E i \in 1..MaxBatch + 1, lookupError \in BOOLEAN : RouterLookupDone(i, lookupError)
    \/ \E i \in 1..MaxBatch + 1, publishError \in BOOLEAN : RouterPublishDone(i, publishError)
    \/ RouterReturn

(***************************************************************************)
(* Submission Watcher Lambda (the per-challenge Worker).                   *)
(***************************************************************************)
CONFIG_CHALLENGE_ID == CH1           \* process.env.CHALLENGE_ID
MAX_RETRIES == "3"                   \* process.env.MAX_RETRIES || '3'
maxRetries == ParseInt(MAX_RETRIES)
TOKEN_EXPIRY_BUFFER_MS == 5 * 60 * 1000
DEFAULT_EXPIRES_IN == 86400
auth0Configured == TRUE              \* the five AUTH0_* variables are set
SQS_MAX_RECEIVE_COUNT == 3           \* dead-letter policy of the queue

MaxWBatch == 2         \* records in one Worker event
MaxInvocations == 2    \* handler invocations are counted up to this number
MaxCounted == 4        \* retry messages are counted up to this number
ScorerLists == { <<>>, <<"a">>, <<"a", "b">> }
ExpiresInValues == { Undefined, Num(900) }

\* Mutant: the attribute is ignored.
getRetryCount_zero(record) == Num(0)

\* Mutant: every earlier delivery of the message counts as a retry.
getRetryCount_plusReceives(record) ==
    NumPlus(IF Truthy(record.RetryCount) THEN ParseInt(record.RetryCount.s) ELSE Num(0),
            record.receiveCount - 1)

\* getRetryCount: the RetryCount message attribute parsed as an integer, 0
\* when the attribute or its stringValue is missing or empty.
getRetryCount(record) ==
    IF Truthy(record.RetryCount) THEN ParseInt(record.RetryCount.s) ELSE Num(0)

\* Mutant: the RetryCount tag is always 0.
launchEcsTask_noRetryTag(rec, submissionId, scorerType, retryCount) ==
    [rec |-> rec,
     tags |-> [ChallengeId |-> Str(CONFIG_CHALLENGE_ID),
               SubmissionId |-> submissionId,
               ScorerType |-> Str(scorerType),
               RetryCount |-> Str("0")],
     seen |-> retryCount,
     status |-> "pending"]

\* launchEcsTask: the RunTaskCommand with the correlation tags of the task.
launchEcsTask(rec, submissionId, scorerType, retryCount) ==
    [rec |-> rec,
     tags |-> [ChallengeId |-> Str(CONFIG_CHALLENGE_ID),
               SubmissionId |-> submissionId,
               ScorerType |-> Str(scorerType),
               RetryCount |-> Str(NumToString(retryCount))],
     seen |-> retryCount,
     status |-> "pending"]

\* challengeConfig.scorers || []
ScorersOf(challengeConfig) == challengeConfig.scorers

\* The batches the queue may hand to the Worker: up to MaxWBatch messages.
RECURSIVE SeqToBag(_)
SeqToBag(seq) ==
    IF seq = <<>> THEN EmptyBag ELSE SetToBag({Head(seq)}) (+) SeqToBag(Tail(seq))

Batches(bag) ==
    { b \in UNION { [1..n -> BagToSet(bag)] : n \in 1..MaxWBatch } :
        SeqToBag(b) \sqsubseteq bag }

WorkerMessageId(i) == "msg-" \o ToString(i)

Received(m) == [m EXCEPT !.receiveCount = @ + 1]

\* exports.handler is invoked with a batch of the worker's queue; the
\* messages become invisible until the handler has returned.
WorkerInvoke ==
    /\ wPc \in {"idle", "returned"}
    /\ \A k \in 1..Len(ecsCalls) : ecsCalls[k].status # "pending"
    /\ \E b \in Batches(queues[QUEUE1]) :
          /\ wRecords' = [i \in 1..Len(b) |-> Received(b[i])]
          /\ queues' = [queues EXCEPT ![QUEUE1] = @ (-) SeqToBag(b)]
    /\ wPc' = "cfg"
    /\ wCtx' = "preload"
    /\ wIdx' = 0
    /\ wScIdx' = 0
    /\ wResults' = <<>>
    /\ wReturn' = <<>>
    /\ ecsCalls' = <<>>
    /\ wInvocations' = IF wInvocations < MaxInvocations THEN wInvocations + 1 ELSE wInvocations
    /\ UNCHANGED <<routerVars, dlq, cacheVars, envVars, authCalls, coldStart, jobVars, completionVars>>

\* Mutant: the handler reports after the first record.
FinishRecord_firstOnly(success, outcome) ==
    /\ wResults' = Append(wResults, [success |-> success, outcome |-> outcome])
    /\ wCtx' = "record"
    /\ wScIdx' = 0
    /\ wIdx' = wIdx /\ wPc' = "ret"

\* The current record's processRecord settles with the given outcome; the
\* handler's loop goes on to the next record.
FinishRecord(success, outcome) ==
    /\ wResults' = Append(wResults, [success |-> success, outcome |-> outcome])
    /\ wCtx' = "record"
    /\ wScIdx' = 0
    /\ IF wIdx < Len(wRecords)
       THEN wIdx' = wIdx + 1 /\ wPc' = "rec"
       ELSE wIdx' = wIdx /\ wPc' = "ret"

\* The handler's prologue is over (or has thrown): the loop over the records
\* starts.
StartRecords ==
    /\ wCtx' = "record"
    /\ wIdx' = 1
    /\ wPc' = "rec"
    /\ UNCHANGED <<wScIdx, wResults>>

\* Mutant: processRecord reports a success when a load has thrown.
Thrown_acknowledged == IF wCtx = "preload" THEN StartRecords ELSE FinishRecord(TRUE, "thrown")

\* A load in the prologue or in processRecord has thrown.
Thrown == IF wCtx = "preload" THEN StartRecords ELSE FinishRecord(FALSE, "thrown")

\* loadChallengeConfig: the cached configuration, or a GetParameter request.
WorkerLoadChallengeConfig ==
    /\ wPc = "cfg"
    /\ IF Truthy(challengeConfigCache) THEN wPc' = "tok" ELSE wPc' = "cfgWait"
    /\ UNCHANGED <<wCtx, wRecords, wIdx, wScIdx, wResults, wReturn, ecsCalls>>
    /\ UNCHANGED <<routerVars, brokerVars, cacheVars, envVars, processVars, jobVars, completionVars>>

\* Mutant: a failed request caches a configuration without scorers.
WorkerChallengeConfigLoaded_poisoned(error) ==
    /\ wPc = "cfgWait"
    /\ IF ~error
       THEN /\ challengeConfigCache' = [t |-> "object", scorers |-> ssmScorers]
            /\ wPc' = "tok"
            /\ UNCHANGED <<wCtx, wIdx, wScIdx, wResults>>
       ELSE /\ Thrown
            /\ challengeConfigCache' = [t |-> "object", scorers |-> <<>>]
    /\ UNCHANGED <<wRecords, wReturn, ecsCalls>>
    /\ UNCHANGED <<scorerConfigsCache, tokenCache, tokenExpiry>>
    /\ UNCHANGED <<routerVars, brokerVars, envVars, processVars, jobVars, completionVars>>

\* The GetParameter request answers: the parsed value is cached; or it throws.
WorkerChallengeConfigLoaded(error) ==
    /\ wPc = "cfgWait"
    /\ IF ~error
       THEN /\ challengeConfigCache' = [t |-> "object", scorers |-> ssmScorers]
            /\ wPc' = "tok"
            /\ UNCHANGED <<wCtx, wIdx, wScIdx, wResults>>
       ELSE /\ Thrown
            /\ UNCHANGED challengeConfigCache
    /\ UNCHANGED <<wRecords, wReturn, ecsCalls>>
    /\ UNCHANGED <<scorerConfigsCache, tokenCache, tokenExpiry>>
    /\ UNCHANGED <<routerVars, brokerVars, envVars, processVars, jobVars, completionVars>>

\* Mutant: the cached token is never reused.
TokenValid_never == FALSE

\* The cold-start preload at module load has called loadChallengeConfig, and
\* its GetParameter request answers: the parsed value is cached; or it
\* throws, which the preload only logs.
ColdStartConfigLoaded(error) ==
    /\ coldStart = "cfgWait"
    /\ IF ~error
       THEN /\ challengeConfigCache' = [t |-> "object", scorers |-> ssmScorers]
            /\ coldStart' = "done"
       ELSE /\ coldStart' = "failed"
            /\ UNCHANGED challengeConfigCache
    /\ UNCHANGED <<scorerConfigsCache, tokenCache, tokenExpiry, wInvocations, authCalls>>
    /\ UNCHANGED <<routerVars, brokerVars, handlerVars, ecsCalls, envVars, jobVars, completionVars>>

\* Mutant: the cached token is reused until it expires.
TokenValid_noBuffer ==
    /\ Truthy(tokenCache)
    /\ Truthy(tokenExpiry)
    /\ now < tokenExpiry.n

\* tokenCache && tokenExpiry && Date.now() < tokenExpiry - TOKEN_EXPIRY_BUFFER_MS
TokenValid ==
    /\ Truthy(tokenCache)
    /\ Truthy(tokenExpiry)
    /\ now < tokenExpiry.n - TOKEN_EXPIRY_BUFFER_MS

\* After getAccessToken: the prologue ends, or processRecord reads the
\* scorers of the challenge configuration.
AfterToken ==
    IF wCtx = "preload" THEN StartRecords
    ELSE IF Len(ScorersOf(challengeConfigCache)) = 0 THEN FinishRecord(TRUE, "noScorers")
    ELSE /\ wPc' = "sc"
         /\ wScIdx' = 1
         /\ UNCHANGED <<wCtx, wIdx, wResults>>

\* axios.post to the Auth0 proxy, sent at the current time.
AuthRequest == [at |-> now, status |-> "pending", expiry |-> JsNull]

\* getAccessToken: the cached token while it is valid, or a request to the
\* Auth0 proxy.
WorkerGetAccessToken ==
    /\ wPc = "tok"
    /\ IF TokenValid THEN AfterToken /\ UNCHANGED authCalls
       ELSE IF ~auth0Configured THEN Thrown /\ UNCHANGED authCalls
       ELSE /\ wPc' = "tokWait"
            /\ authCalls' = Append(authCalls, AuthRequest)
            /\ UNCHANGED <<wCtx, wIdx, wScIdx, wResults>>
    /\ UNCHANGED <<wRecords, wReturn, ecsCalls, wInvocations, coldStart>>
    /\ UNCHANGED <<routerVars, brokerVars, cacheVars, envVars, jobVars, completionVars>>

\* The Auth0 proxy answers with a token, which is cached with its expiry; or
\* the request fails or the answer has no access_token.
WorkerTokenFetched(error, expires_in) ==
    /\ wPc = "tokWait"
    /\ IF ~error
       THEN LET expiresIn == IF Truthy(expires_in) THEN expires_in.n ELSE DEFAULT_EXPIRES_IN
            IN /\ tokenCache' = Str("access-token")
               /\ tokenExpiry' = Num(now + expiresIn * 1000)
               /\ authCalls' = [authCalls EXCEPT ![Len(authCalls)] =
                                   [@ EXCEPT !.status = "ok",
                                             !.expiry = Num(now + expiresIn * 1000)]]
               /\ AfterToken
       ELSE /\ Thrown
            /\ authCalls' = [authCalls EXCEPT ![Len(authCalls)].status = "failed"]
            /\ UNCHANGED <<tokenCache, tokenExpiry>>
    /\ UNCHANGED <<wRecords, wReturn, ecsCalls, wInvocations, coldStart>>
    /\ UNCHANGED <<challengeConfigCache, scorerConfigsCache>>
    /\ UNCHANGED <<routerVars, brokerVars, envVars, jobVars, completionVars>>

\* Mutant: the challenge of the message is not compared with the worker's.
isMisrouted_never(challengeId) == FALSE

\* challengeId !== config.challengeId
isMisrouted(challengeId) == challengeId # Str(CONFIG_CHALLENGE_ID)

\* Mutant: the budget check is off by one (> instead of >=).
maxRetriesExceeded_strict(retryCount) == NumGe(retryCount, NumPlus(maxRetries, 1))

\* retryCount >= config.maxRetries
maxRetriesExceeded(retryCount) == NumGe(retryCount, maxRetries)

\* processRecord up to its first await: parse the body, drop a misrouted
\* message, drop a message whose retry budget is exhausted.
WorkerStartRecord ==
    /\ wPc = "rec"
    /\ LET record == wRecords[wIdx]
           parsed == JSONParse(record.body)
       IN IF ~parsed.ok THEN FinishRecord(FALSE, "thrown")
          ELSE IF isMisrouted(ChallengeIdOf(parsed.value))
               THEN FinishRecord(TRUE, "misrouted")
          ELSE IF maxRetriesExceeded(getRetryCount(record))
               THEN FinishRecord(TRUE, "exhausted")
          ELSE wPc' = "cfg" /\ UNCHANGED <<wCtx, wIdx, wScIdx, wResults>>
    /\ UNCHANGED <<wRecords, wReturn, ecsCalls>>
    /\ UNCHANGED <<routerVars, brokerVars, cacheVars, envVars, processVars, jobVars, completionVars>>

\* After loadScorerConfig: launchEcsTask sends the RunTaskCommand of the
\* current scorer, and the loop goes on to the next scorer or to the join.
LaunchCurrent ==
    LET record == wRecords[wIdx]
        submissionId == SubmissionIdOf(JSONParse(record.body).value)
        scorerType == ScorersOf(challengeConfigCache)[wScIdx]
    IN /\ ecsCalls' = Append(ecsCalls,
                             launchEcsTask(wIdx, submissionId, scorerType, getRetryCount(record)))
       /\ IF wScIdx < Len(ScorersOf(challengeConfigCache))
          THEN wScIdx' = wScIdx + 1 /\ wPc' = "sc"
          ELSE wScIdx' = wScIdx /\ wPc' = "join"
       /\ UNCHANGED <<wCtx, wIdx, wResults>>

\* loadScorerConfig: the cached configuration, or a GetParameter request.
WorkerLoadScorerConfig ==
    /\ wPc = "sc"
    /\ IF ScorersOf(challengeConfigCache)[wScIdx] \in scorerConfigsCache
       THEN LaunchCurrent
       ELSE wPc' = "scWait" /\ UNCHANGED <<wCtx, wIdx, wScIdx, wResults, ecsCalls>>
    /\ UNCHANGED <<wRecords, wReturn>>
    /\ UNCHANGED <<routerVars, brokerVars, cacheVars, envVars, processVars, jobVars, completionVars>>

\* The GetParameter request answers: the scorer configuration is cached and
\* the task launched; or it throws and processRecord reports a failure.
WorkerScorerConfigLoaded(error) ==
    /\ wPc = "scWait"
    /\ IF ~error
       THEN /\ scorerConfigsCache' =
                  scorerConfigsCache \cup {ScorersOf(challengeConfigCache)[wScIdx]}
            /\ LaunchCurrent
       ELSE /\ FinishRecord(FALSE, "thrown")
            /\ UNCHANGED <<scorerConfigsCache, ecsCalls>>
    /\ UNCHANGED <<wRecords, wReturn>>
    /\ UNCHANGED <<challengeConfigCache, tokenCache, tokenExpiry>>
    /\ UNCHANGED <<routerVars, brokerVars, envVars, processVars, jobVars, completionVars>>

CallsOf(rec) == { k \in 1..Len(ecsCalls) : ecsCalls[k].rec = rec }

\* Mutant: a message whose launches all failed is still reported a success.
allLaunchesFailed_never(failures, launches) == FALSE

\* Mutant: the failure of a single launch is not reported.
allLaunchesFailed_onlySeveral(failures, launches) == failures > 1 /\ failures = launches

\* failures.length > 0 and failures.length === taskPromises.length
allLaunchesFailed(failures, launches) == failures > 0 /\ failures = launches

\* Mutant: the record settles only when the launched tasks have stopped.
WorkerJoin_awaitsTasks ==
    /\ wPc = "join"
    /\ \A k \in CallsOf(wIdx) : ecsCalls[k].status # "pending"
    /\ jobs = EmptyBag
    /\ LET failures == { k \in CallsOf(wIdx) : ecsCalls[k].status = "rejected" }
       IN IF allLaunchesFailed(Cardinality(failures), Cardinality(CallsOf(wIdx)))
          THEN FinishRecord(FALSE, "allLaunchesFailed")
          ELSE FinishRecord(TRUE, "launched")
    /\ UNCHANGED <<wRecords, wReturn, ecsCalls>>
    /\ UNCHANGED <<routerVars, brokerVars, cacheVars, envVars, processVars, jobVars, completionVars>>

\* Promise.allSettled over the launches of the record: failure only when
\* every launch was rejected.
WorkerJoin ==
    /\ wPc = "join"
    /\ \A k \in CallsOf(wIdx) : ecsCalls[k].status # "pending"
    /\ LET failures == { k \in CallsOf(wIdx) : ecsCalls[k].status = "rejected" }
       IN IF allLaunchesFailed(Cardinality(failures), Cardinality(CallsOf(wIdx)))
          THEN FinishRecord(FALSE, "allLaunchesFailed")
          ELSE FinishRecord(TRUE, "launched")
    /\ UNCHANGED <<wRecords, wReturn, ecsCalls>>
    /\ UNCHANGED <<routerVars, brokerVars, cacheVars, envVars, processVars, jobVars, completionVars>>

RECURSIVE WorkerFailures(_, _)
WorkerFailures(results, i) ==
    IF i > Len(results) THEN <<>>
    ELSE (IF results[i].success THEN <<>> ELSE <<[itemIdentifier |-> WorkerMessageId(i)]>>)
         \o WorkerFailures(results, i + 1)

RECURSIVE RecordsBag(_, _, _)
RecordsBag(records, idxs, i) ==
    IF i > Len(records) THEN EmptyBag
    ELSE (IF i \in idxs THEN SetToBag({records[i]}) ELSE EmptyBag)
         (+) RecordsBag(records, idxs, i + 1)

\* The handler returns the batch item failures.  The queue deletes the
\* acknowledged messages; a failed message becomes visible again, or moves
\* to the dead-letter queue once it has been received maxReceiveCount times.
WorkerReturn ==
    /\ wPc = "ret"
    /\ wReturn' = WorkerFailures(wResults, 1)
    /\ LET failed == { i \in 1..Len(wRecords) : ~wResults[i].success }
           back == { i \in failed : wRecords[i].receiveCount < SQS_MAX_RECEIVE_COUNT }
           dead == failed \ back
       IN /\ queues' = [queues EXCEPT ![QUEUE1] = @ (+) RecordsBag(wRecords, back, 1)]
          /\ dlq' = dlq (+) RecordsBag(wRecords, dead, 1)
    /\ wPc' = "returned"
    /\ UNCHANGED <<wCtx, wRecords, wIdx, wScIdx, wResults, ecsCalls>>
    /\ UNCHANGED <<routerVars, cacheVars, envVars, processVars, jobVars, completionVars>>

(***************************************************************************)
(* ECS: a RunTask request starts a task carrying the tags, or fails; a     *)
(* running task stops and EventBridge emits a Task State Change event.     *)
(***************************************************************************)
ContainerLists == { <<Num(0)>>, <<Num(1)>> }

TagArray(tags) ==
    [t |-> "array", ChallengeId |-> tags.ChallengeId, SubmissionId |-> tags.SubmissionId,
     ScorerType |-> tags.ScorerType, RetryCount |-> tags.RetryCount]

EcsRunTask(k, error, started) ==
    /\ k \in 1..Len(ecsCalls)
    /\ ecsCalls[k].status = "pending"
    /\ IF ~error
       THEN /\ BagCardinality(jobs) < MaxJobs
            /\ jobs' = jobs (+) SetToBag({[tags |-> ecsCalls[k].tags, seen |-> ecsCalls[k].seen]})
            /\ ecsCalls' = [ecsCalls EXCEPT ![k].status = "fulfilled"]
       ELSE /\ ecsCalls' = [ecsCalls EXCEPT ![k].status = "rejected"]
            /\ UNCHANGED jobs
    /\ tasksStarted' = started
    /\ UNCHANGED <<routerVars, brokerVars, handlerVars, cacheVars, envVars, processVars, notifications, completionVars>>

\* The answer to a RunTask request, the started tasks not being counted.
EcsRunTaskDone(k, error) == EcsRunTask(k, error, tasksStarted)

\* The answer to a RunTask request, a started task being counted.
EcsRunTaskCounted(k, error) ==
    EcsRunTask(k, error, IF error THEN tasksStarted ELSE tasksStarted + 1)

EcsTaskStopped(containers) ==
    /\ BagCardinality(notifications) < MaxNotifications
    /\ \E job \in BagToSet(jobs) :
          /\ jobs' = jobs (-) SetToBag({job})
          /\ UNCHANGED tasksStarted
          /\ notifications' = notifications (+)
                SetToBag({[tags |-> TagArray(job.tags), containers |-> containers,
                           seen |-> job.seen]})
    /\ UNCHANGED <<routerVars, brokerVars, workerVars, envVars, completionVars>>

(***************************************************************************)
(* Completion Lambda.                                                      *)
(***************************************************************************)
challengeMappingTableConfigured == TRUE   \* process.env.CHALLENGE_MAPPING_TABLE

\* An element of the tags or of the containers that is null, not an object.
NullElement == [t |-> "nullElement"]
\* A tags array with a null element.
NullTagArray == [t |-> "array[null]"]

\* An error is thrown inside the handler's try block: extractTags reads
\* tag.key of a null tag, extractContainerInfo reads the exitCode of a null
\* first container, and every() in isTaskSuccessful reads the exitCode of a
\* null container unless an earlier exit code has stopped it.
tryBlockThrows(detail) ==
    \/ detail.tags = NullTagArray
    \/ \E c \in 1..Len(detail.containers) :
          /\ detail.containers[c] = NullElement
          /\ \A j \in 1..(c - 1) : detail.containers[j] = Num(0)

\* Mutant: the error caught in the handler is thrown again.
handlerThrows_rethrow(detail) == tryBlockThrows(detail)

\* exports.handler rejects: never, the only statement outside the try
\* serialises the event, and the catch block returns a response.
handlerThrows(detail) == FALSE

\* extractTags: the tags as key -> value; a tag with an empty value is
\* dropped, and anything but an array yields no tag.
extractTags(tags) ==
    LET keep(v) == IF Truthy(v) THEN v ELSE Undefined
    IN IF tags.t # "array"
       THEN [ChallengeId |-> Undefined, SubmissionId |-> Undefined,
             ScorerType |-> Undefined, RetryCount |-> Undefined]
       ELSE [ChallengeId |-> keep(tags.ChallengeId), SubmissionId |-> keep(tags.SubmissionId),
             ScorerType |-> keep(tags.ScorerType), RetryCount |-> keep(tags.RetryCount)]

\* Mutant: the check for at least one container is dropped.
isTaskSuccessful_vacuous(detail) ==
    \A c \in 1..Len(detail.containers) : detail.containers[c] = Num(0)

\* Mutant: only a task with a single container can succeed.
isTaskSuccessful_single(detail) ==
    /\ Len(detail.containers) = 1
    /\ detail.containers[1] = Num(0)

\* isTaskSuccessful: at least one container and every exit code === 0.
isTaskSuccessful(detail) ==
    /\ Len(detail.containers) # 0
    /\ \A c \in 1..Len(detail.containers) : detail.containers[c] = Num(0)

\* v || dflt
OrElse(v, dflt) == IF Truthy(v) THEN v ELSE Str(dflt)

\* Mutant: one identifier is enough to attempt the retry.
idsKnown_either(challengeId, submissionId) ==
    challengeId # Str("unknown") \/ submissionId # Str("unknown")

\* challengeId !== 'unknown' && submissionId !== 'unknown'
idsKnown(challengeId, submissionId) ==
    challengeId # Str("unknown") /\ submissionId # Str("unknown")

\* Mutant: every retry goes to the queue of the first challenge.
getQueueUrl_fixed(challengeId, lookupError) ==
    IF lookupError THEN JsNull ELSE Str(QUEUE1)

\* Mutant: a challenge without a queue URL is retried on a default queue.
getQueueUrl_default(challengeId, lookupError) ==
    IF lookupError THEN JsNull
    ELSE LET item == MappingTable(challengeId)
         IN IF ~item.found \/ item.queueUrl = "" THEN Str(QUEUE3) ELSE Str(item.queueUrl)

\* getQueueUrl: the queueUrl of the challenge's item; null when the table is
\* not configured, the lookup fails or the item has no queue URL.
getQueueUrl(challengeId, lookupError) ==
    IF ~challengeMappingTableConfigured THEN JsNull
    ELSE IF lookupError THEN JsNull
    ELSE LET item == MappingTable(challengeId)
         IN IF ~item.found \/ item.queueUrl = "" THEN JsNull ELSE Str(item.queueUrl)

\* Mutant: the retry message's payload has the two identifiers exchanged.
RetryCommand_swapped(queueUrl, challengeId, submissionId, scorerType, newRetryCount) ==
    [QueueUrl |-> queueUrl,
     MessageBody |-> JSONStringify(
         MessageObj(PayloadObj(challengeId, submissionId, scorerType),
                    [t |-> "object",
                     retryCount |-> IF newRetryCount.nan THEN JsNull ELSE newRetryCount,
                     reason |-> "ECS task failed"])),
     RetryCount |-> Str(NumToString(newRetryCount)),
     ScorerType |-> scorerType]

\* The SendMessageCommand of a retry: the identifiers and the scorer type in
\* the body, the retry count in the body and in the RetryCount attribute.
RetryCommand(queueUrl, challengeId, submissionId, scorerType, newRetryCount) ==
    [QueueUrl |-> queueUrl,
     MessageBody |-> JSONStringify(
         MessageObj(PayloadObj(submissionId, challengeId, scorerType),
                    [t |-> "object",
                     retryCount |-> IF newRetryCount.nan THEN JsNull ELSE newRetryCount,
                     reason |-> "ECS task failed"])),
     RetryCount |-> Str(NumToString(newRetryCount)),
     ScorerType |-> scorerType]

\* Mutant: the retry count is passed on without the increment.
sendRetryMessage_sameCount(queueUrl, challengeId, submissionId, scorerType, retryCount) ==
    IF NumGe(NumPlus(retryCount, 1), maxRetries) THEN <<>>
    ELSE << RetryCommand(queueUrl, challengeId, submissionId, scorerType, retryCount) >>

\* Mutant: the budget check is off by one (> instead of >=).
sendRetryMessage_offByOne(queueUrl, challengeId, submissionId, scorerType, retryCount) ==
    IF NumGe(NumPlus(retryCount, 1), NumPlus(maxRetries, 1)) THEN <<>>
    ELSE << RetryCommand(queueUrl, challengeId, submissionId, scorerType,
                         NumPlus(retryCount, 1)) >>

\* Mutant: the retry is sent whatever the incremented retry count.
sendRetryMessage_noBudget(queueUrl, challengeId, submissionId, scorerType, retryCount) ==
    << RetryCommand(queueUrl, challengeId, submissionId, scorerType, NumPlus(retryCount, 1)) >>

\* Mutant: every retry message carries retry count 1.
sendRetryMessage_restart(queueUrl, challengeId, submissionId, scorerType, retryCount) ==
    IF NumGe(NumPlus(retryCount, 1), maxRetries) THEN <<>>
    ELSE << RetryCommand(queueUrl, challengeId, submissionId, scorerType, Num(1)) >>

\* Mutant: the retry count is inferred from the messages already queued.
sendRetryMessage_counting(queueUrl, challengeId, submissionId, scorerType, retryCount) ==
    LET newRetryCount == NumPlus(retryCount, 1 + QueueSize(queueUrl))
    IN IF NumGe(newRetryCount, maxRetries) THEN <<>>
       ELSE << RetryCommand(queueUrl, challengeId, submissionId, scorerType, newRetryCount) >>

\* sendRetryMessage: nothing is sent once the incremented retry count
\* reaches maxRetries; otherwise the SendMessageCommand of the retry.
sendRetryMessage(queueUrl, challengeId, submissionId, scorerType, retryCount) ==
    LET newRetryCount == NumPlus(retryCount, 1)
    IN IF NumGe(newRetryCount, maxRetries) THEN <<>>
       ELSE << RetryCommand(queueUrl, challengeId, submissionId, scorerType, newRetryCount) >>

\* retryCount < config.maxRetries - 1
NumLt(a, b) == ~a.nan /\ ~b.nan /\ a.n < b.n

\* exports.handler for one event: the SendMessageCommands it sends and the
\* response it returns.
CompletionRun(detail, lookupError, sendError) ==
    LET tags == extractTags(detail.tags)
        challengeId == OrElse(tags.ChallengeId, "unknown")
        submissionId == OrElse(tags.SubmissionId, "unknown")
        scorerType == OrElse(tags.ScorerType, "unknown")
        retryCount == ParseInt(OrElse(tags.RetryCount, "0").s)
        success == isTaskSuccessful(detail)
        known == idsKnown(challengeId, submissionId)
        queueUrl == IF ~success /\ known THEN getQueueUrl(challengeId.s, lookupError)
                    ELSE JsNull
        sends == IF ~success /\ known /\ Truthy(queueUrl)
                 THEN sendRetryMessage(queueUrl.s, challengeId, submissionId, scorerType,
                                       retryCount)
                 ELSE <<>>
    IN IF tryBlockThrows(detail)
       THEN [invoked |-> TRUE,
             detail |-> detail,
             threw |-> handlerThrows(detail),
             lookedUp |-> FALSE,
             lookupError |-> FALSE,
             sends |-> <<>>,
             sendError |-> FALSE,
             response |-> [statusCode |-> 500,
                           message |-> "Error processing task completion"]]
       ELSE [invoked |-> TRUE,
             detail |-> detail,
             threw |-> handlerThrows(detail),
             lookedUp |-> ~success /\ known,
             lookupError |-> ~success /\ known /\ lookupError,
             sends |-> sends,
             sendError |-> sends # <<>> /\ sendError,
             response |-> [statusCode |-> 200, success |-> success,
                           challengeId |-> challengeId, submissionId |-> submissionId,
                           scorerType |-> scorerType,
                           retryQueued |-> ~success /\ NumLt(retryCount,
                                                             NumPlus(maxRetries, -1))]]

\* The queue keeps one copy of equal messages.
SqsDeliver_dedup(qs, send, cause) ==
    LET m == SqsMessage(send.MessageBody, send.RetryCount, send.ScorerType,
                        Undefined, "completion", cause)
    IN [qs EXCEPT ![send.QueueUrl] = IF BagIn(m, @) THEN @ ELSE @ (+) SetToBag({m})]

\* The queue receives the message of a SendMessageCommand.
SqsDeliver(qs, send, cause) ==
    [qs EXCEPT ![send.QueueUrl] =
        @ (+) SetToBag({SqsMessage(send.MessageBody, send.RetryCount, send.ScorerType,
                                   Undefined, "completion", cause)})]

\* The Completion Lambda handles one Task State Change event; prev is the
\* record kept of the invocation before it.  EventBridge keeps an event
\* whose invocation threw and delivers it again.
CompletionHandler(lookupError, sendError, prev, counted) ==
    /\ \E ev \in BagToSet(notifications) :
          LET run == CompletionRun(ev, lookupError, sendError)
          IN /\ cLast' = run
             /\ cPrev' = prev
             /\ retriesSent' = IF counted /\ run.sends # <<>> /\ ~sendError
                               THEN retriesSent + 1 ELSE retriesSent
             /\ notifications' = IF run.threw THEN notifications
                                  ELSE notifications (-) SetToBag({ev})
             /\ IF run.sends # <<>> /\ ~sendError
                THEN /\ QueueSize(run.sends[1].QueueUrl) < MaxQueue
                     /\ queues' = SqsDeliver(queues, run.sends[1], ev.seen)
                ELSE UNCHANGED queues
    /\ UNCHANGED <<routerVars, dlq, workerVars, envVars, jobs, tasksStarted>>

\* An invocation of which only the last record is kept.
Complete(lookupError, sendError) == CompletionHandler(lookupError, sendError, cPrev, FALSE)

\* An invocation whose predecessor's record is kept as well.
CompleteAfter(lookupError, sendError) ==
    CompletionHandler(lookupError, sendError, cLast, FALSE)

\* An invocation whose retry message is counted, up to MaxCounted.
CompleteCounted(lookupError, sendError) ==
    /\ retriesSent < MaxCounted
    /\ CompletionHandler(lookupError, sendError, cPrev, TRUE)

NoCompletion == [invoked |-> FALSE]

RouterInit ==
    /\ rPhase = "idle"
    /\ rRecords = <<>>
    /\ rTask = <<>>
    /\ snsCalls = <<>>
    /\ rReturn = <<>>

WorkerInit ==
    /\ wPc = "idle"
    /\ wCtx = "preload"
    /\ wRecords = <<>>
    /\ wIdx = 0
    /\ wScIdx = 0
    /\ wResults = <<>>
    /\ wReturn = <<>>
    /\ ecsCalls = <<>>
    /\ challengeConfigCache = JsNull
    /\ scorerConfigsCache = {}
    /\ tokenCache = JsNull
    /\ tokenExpiry = JsNull
    /\ wInvocations = 0
    /\ authCalls = <<>>
    /\ coldStart = "failed"

EnvInit ==
    /\ dlq = EmptyBag
    /\ now = 0
    /\ jobs = EmptyBag
    /\ tasksStarted = 0
    /\ cLast = NoCompletion
    /\ cPrev = NoCompletion
    /\ retriesSent = 0

\* The Worker's steps; faults tells whether its network calls may fail.
WorkerNext(faults) ==
    \/ WorkerInvoke
    \/ WorkerLoadChallengeConfig
    \/ \E error \in {FALSE, faults} : WorkerChallengeConfigLoaded(error)
    \/ WorkerGetAccessToken
    \/ \E error \in {FALSE, faults}, expires_in \in ExpiresInValues :
          WorkerTokenFetched(error, expires_in)
    \/ WorkerStartRecord
    \/ WorkerLoadScorerConfig
    \/ \E error \in {FALSE, faults} : WorkerScorerConfigLoaded(error)
    \/ WorkerJoin
    \/ WorkerReturn

EcsNext(faults) ==
    \/ \E k \in 1..(MaxWBatch + 1) * 2, error \in {FALSE, faults} : EcsRunTaskDone(k, error)
    \/ \E containers \in ContainerLists : EcsTaskStopped(containers)

(***************************************************************************)
(* The pipeline: one valid submission routed end to end.                   *)
(***************************************************************************)
PipelineEvent == <<Base64Encode(JSONStringify(SubmissionMsg(Str(SUB1), Str(CH1))))>>

Init ==
    /\ RouterInit
    /\ WorkerInit
    /\ EnvInit
    /\ queues = [q \in QueueUrls |-> EmptyBag]
    /\ notifications = EmptyBag
    /\ ingress = <<PipelineEvent>>
    /\ ssmScorers = <<"a", "b">>

Next ==
    \/ RouterInvoke
    \/ \E i \in 1..MaxBatch + 1 : RouterLookupDone(i, FALSE)
    \/ \E i \in 1..MaxBatch + 1 : RouterPublishDone(i, FALSE)
    \/ RouterReturn
    \/ WorkerNext(FALSE)
    \/ EcsNext(FALSE)
    \/ Complete(FALSE, FALSE)

Spec == Init /\ [][Next]_vars

(***************************************************************************)
(* The pipeline of one routed message for a challenge of no or one scorer, *)
(* the started tasks being counted; a step that can be taken is taken      *)
(* eventually.                                                             *)
(***************************************************************************)
InitTermination ==
    /\ RouterInit
    /\ WorkerInit
    /\ EnvInit
    /\ queues = [q \in QueueUrls |-> EmptyBag]
    /\ notifications = EmptyBag
    /\ ingress = <<PipelineEvent>>
    /\ ssmScorers \in { <<>>, <<"a">> }

NextTermination ==
    \/ RouterInvoke
    \/ \E i \in 1..MaxBatch + 1 : RouterLookupDone(i, FALSE)
    \/ \E i \in 1..MaxBatch + 1 : RouterPublishDone(i, FALSE)
    \/ RouterReturn
    \/ WorkerNext(FALSE)
    \/ \E k \in 1..(MaxWBatch + 1) * 2 : EcsRunTaskCounted(k, FALSE)
    \/ \E containers \in ContainerLists : EcsTaskStopped(containers)
    \/ Complete(FALSE, FALSE)

SpecTermination == InitTermination /\ [][NextTermination]_vars /\ WF_vars(NextTermination)

(***************************************************************************)
(* The Worker, ECS and the Completion Lambda from one message on the       *)
(* worker's queue whose RetryCount attribute has any value: none, empty,   *)
(* a count, a negative number or a text that is not a number.              *)
(***************************************************************************)
AnyCounts ==
    { Undefined } \cup { Str(c) : c \in {"", "0", "1", "2", "3", "-1", "abc"} }

AnyCountMessages ==
    { SqsMessage(JSONStringify(SubmissionMsg(Str(SUB1), Str(CH1))), rc, Undefined,
                 Undefined, "sent", NaN) : rc \in AnyCounts }

InitAnyCount ==
    /\ RouterInit
    /\ WorkerInit
    /\ EnvInit
    /\ notifications = EmptyBag
    /\ ingress = <<>>
    /\ ssmScorers = <<"a">>
    /\ \E m \in AnyCountMessages :
          queues = [u \in QueueUrls |-> IF u = QUEUE1 THEN SetToBag({m}) ELSE EmptyBag]

NextAnyCount ==
    \/ WorkerNext(FALSE)
    \/ \E k \in 1..(MaxWBatch + 1) * 2 : EcsRunTaskDone(k, FALSE)
    \/ \E containers \in ContainerLists : EcsTaskStopped(containers)
    \/ CompleteCounted(FALSE, FALSE)

SpecAnyCount == InitAnyCount /\ [][NextAnyCount]_vars

(***************************************************************************)
(* The pipeline when the same valid submission is routed twice: as two     *)
(* records of one batch, or in two invocations of the Router.              *)
(***************************************************************************)
DuplicateEvents ==
    { << PipelineEvent \o PipelineEvent >>, << PipelineEvent, PipelineEvent >> }

InitDuplicate ==
    /\ RouterInit
    /\ WorkerInit
    /\ EnvInit
    /\ queues = [q \in QueueUrls |-> EmptyBag]
    /\ notifications = EmptyBag
    /\ ingress \in DuplicateEvents
    /\ ssmScorers = <<"a">>

SpecDuplicate == InitDuplicate /\ [][Next]_vars

(***************************************************************************)
(* The Router alone, under every record value.                             *)
(***************************************************************************)
InitRouter ==
    /\ RouterInit
    /\ WorkerInit
    /\ EnvInit
    /\ queues = [q \in QueueUrls |-> EmptyBag]
    /\ notifications = EmptyBag
    /\ ingress \in { <<ev>> : ev \in Events }
    /\ ssmScorers = <<"a", "b">>

SpecRouter == InitRouter /\ [][RouterNext]_vars

(***************************************************************************)
(* The Worker alone: its queue holds any messages, and every network call  *)
(* may fail.                                                               *)
(***************************************************************************)
RetryMsg(sub, ch, scorerType, n) ==
    MessageObj(PayloadObj(sub, ch, Str(scorerType)),
               [t |-> "object", retryCount |-> n, reason |-> "ECS task failed"])

WorkerMessages ==
    { SqsMessage(JSONStringify(SubmissionMsg(Str(SUB1), Str(c))), Undefined, Undefined,
                 Str(c), "router", NaN) : c \in {CH1, CH2} }
    \cup
    { SqsMessage(JSONStringify(RetryMsg(Str(SUB1), Str(CH1), "a", Num(n))),
                 Str(ToString(n)), Str("a"), Undefined, "completion", Num(n - 1)) :
        n \in 1..4 }
    \cup
    { SqsMessage(JSONStringify(RetryMsg(Str(SUB1), Str(CH2), "a", Num(n))),
                 Str(ToString(n)), Str("a"), Undefined, "completion", Num(n - 1)) :
        n \in {1, 3} }
    \cup
    { SqsMessage(NotJson, Undefined, Undefined, Str(CH1), "router", NaN) }

WorkerQueues ==
    { SeqToBag(b) : b \in UNION { [1..n -> WorkerMessages] : n \in 1..MaxWBatch } }

InitWorker ==
    /\ RouterInit
    /\ WorkerInit
    /\ EnvInit
    /\ notifications = EmptyBag
    /\ ingress = <<>>
    /\ ssmScorers \in ScorerLists
    /\ \E q \in WorkerQueues : queues = [u \in QueueUrls |-> IF u = QUEUE1 THEN q ELSE EmptyBag]

NextWorker ==
    \/ WorkerNext(TRUE)
    \/ \E k \in 1..(MaxWBatch + 1) * 2, error \in BOOLEAN : EcsRunTaskDone(k, error)

SpecWorker == InitWorker /\ [][NextWorker]_vars

(***************************************************************************)
(* The credential cache: one process handles two messages while the clock  *)
(* advances; every network call may fail.                                  *)
(***************************************************************************)
MaxTicks == 3          \* clock steps
TickMs == TOKEN_EXPIRY_BUFFER_MS

\* Date.now() advances.
Tick ==
    /\ now < MaxTicks * TickMs
    /\ now' = now + TickMs
    /\ UNCHANGED <<routerVars, brokerVars, workerVars, ssmScorers, jobVars, completionVars>>

CredentialMessages ==
    { SqsMessage(JSONStringify(SubmissionMsg(Str(SUB1), Str(c))), Undefined, Undefined,
                 Str(c), "router", NaN) : c \in {CH1, CH2} }

InitCredential ==
    /\ RouterInit
    /\ WorkerInit
    /\ EnvInit
    /\ notifications = EmptyBag
    /\ ingress = <<>>
    /\ ssmScorers = <<"a">>
    /\ \E m1 \in CredentialMessages, m2 \in CredentialMessages :
          queues = [u \in QueueUrls |-> IF u = QUEUE1 THEN SeqToBag(<<m1, m2>>) ELSE EmptyBag]

NextCredential ==
    \/ WorkerNext(TRUE)
    \/ \E k \in 1..(MaxWBatch + 1) * 2, error \in BOOLEAN : EcsRunTaskDone(k, error)
    \/ Tick

SpecCredential == InitCredential /\ [][NextCredential]_vars

(***************************************************************************)
(* The Worker from the load of its module: the cold-start preload has      *)
(* requested the challenge configuration, and the first invocation may     *)
(* start before the answer.                                                *)
(***************************************************************************)
InitColdStart ==
    /\ RouterInit
    /\ wPc = "idle"
    /\ wCtx = "preload"
    /\ wRecords = <<>>
    /\ wIdx = 0
    /\ wScIdx = 0
    /\ wResults = <<>>
    /\ wReturn = <<>>
    /\ ecsCalls = <<>>
    /\ challengeConfigCache = JsNull
    /\ scorerConfigsCache = {}
    /\ tokenCache = JsNull
    /\ tokenExpiry = JsNull
    /\ wInvocations = 0
    /\ authCalls = <<>>
    /\ coldStart = "cfgWait"
    /\ EnvInit
    /\ notifications = EmptyBag
    /\ ingress = <<>>
    /\ ssmScorers = <<"a">>
    /\ \E m1 \in CredentialMessages, m2 \in CredentialMessages :
          queues = [u \in QueueUrls |-> IF u = QUEUE1 THEN SeqToBag(<<m1, m2>>) ELSE EmptyBag]

NextColdStart ==
    \/ \E error \in BOOLEAN : ColdStartConfigLoaded(error)
    \/ WorkerNext(TRUE)
    \/ \E k \in 1..(MaxWBatch + 1) * 2, error \in BOOLEAN : EcsRunTaskDone(k, error)

SpecColdStart == InitColdStart /\ [][NextColdStart]_vars

(***************************************************************************)
(* The Completion Lambda alone: any Task State Change event arrives, and   *)
(* the lookup and the send may fail.                                       *)
(***************************************************************************)
TagValues(vals) == { Undefined } \cup { Str(v) : v \in vals }

CompletionTags ==
    { Undefined } \cup
    { [t |-> "array", ChallengeId |-> c, SubmissionId |-> s, ScorerType |-> st,
       RetryCount |-> r] :
        c \in TagValues({CH1, CH2, CH_UNKNOWN, CH_NOQUEUE}),
        s \in TagValues({SUB1}),
        st \in TagValues({"a"}),
        r \in TagValues({"0", "1", "2", "3", ""}) }

CompletionContainers ==
    { <<>>, <<Num(0)>>, <<Num(1)>>, <<Num(0), Num(0)>>, <<Num(0), Num(1)>>, <<JsNull>>,
      <<Undefined>>, <<Num(0), Undefined>> }

CompletionEvents ==
    { [tags |-> tg, containers |-> cs, seen |-> NaN] :
        tg \in CompletionTags, cs \in CompletionContainers }

InitCompletion ==
    /\ RouterInit
    /\ WorkerInit
    /\ EnvInit
    /\ queues = [q \in QueueUrls |-> EmptyBag]
    /\ ingress = <<>>
    /\ ssmScorers = <<"a", "b">>
    /\ \E ev \in CompletionEvents : notifications = SetToBag({ev})

NextCompletion == \E lookupError \in BOOLEAN, sendError \in BOOLEAN : Complete(lookupError, sendError)

SpecCompletion == InitCompletion /\ [][NextCompletion]_vars

(***************************************************************************)
(* The Completion Lambda invoked with any event, those included whose tags *)
(* or containers hold a null element.                                      *)
(***************************************************************************)
MalformedContainers == { <<NullElement>>, <<Num(0), NullElement>>, <<Num(1), NullElement>> }

AnyEvents ==
    CompletionEvents
    \cup { [tags |-> NullTagArray, containers |-> cs, seen |-> NaN] :
             cs \in CompletionContainers \cup MalformedContainers }
    \cup { [tags |-> tg, containers |-> cs, seen |-> NaN] :
             tg \in CompletionTags, cs \in MalformedContainers }

InitCompletionAny ==
    /\ RouterInit
    /\ WorkerInit
    /\ EnvInit
    /\ queues = [q \in QueueUrls |-> EmptyBag]
    /\ ingress = <<>>
    /\ ssmScorers = <<"a", "b">>
    /\ \E ev \in AnyEvents : notifications = SetToBag({ev})

SpecCompletionAny == InitCompletionAny /\ [][NextCompletion]_vars

(***************************************************************************)
(* The Completion Lambda with two notifications pending, equal or not,     *)
(* handled in either order.                                                *)
(***************************************************************************)
PairEvents ==
    { [tags |-> [t |-> "array", ChallengeId |-> c, SubmissionId |-> Str(SUB1),
                 ScorerType |-> Str("a"), RetryCount |-> Str(r)],
       containers |-> cs, seen |-> NaN] :
        c \in TagValues({CH1, CH2, CH_NOQUEUE}),
        r \in {"0", "1", "2"},
        cs \in { <<Num(0)>>, <<Num(1)>> } }

InitCompletionPair ==
    /\ RouterInit
    /\ WorkerInit
    /\ EnvInit
    /\ queues = [q \in QueueUrls |-> EmptyBag]
    /\ ingress = <<>>
    /\ ssmScorers = <<"a", "b">>
    /\ \E e1 \in PairEvents, e2 \in PairEvents :
          notifications = SetToBag({e1}) (+) SetToBag({e2})

NextCompletionPair ==
    \E lookupError \in BOOLEAN, sendError \in BOOLEAN : CompleteAfter(lookupError, sendError)

SpecCompletionPair == InitCompletionPair /\ [][NextCompletionPair]_vars

(***************************************************************************)
(* Properties of the Router.                                               *)
(***************************************************************************)
PublishesOf(i) == { k \in 1..Len(snsCalls) : snsCalls[k].rec = i }
ReturnedIds == { rReturn[k].itemIdentifier : k \in 1..Len(rReturn) }
ExpectedId(i) == "submission.notification.create-0-" \o ToString(99 + i)
RouterRecords == 1..Len(rRecords)
Acknowledged(i) == rPhase = "returned" => ExpectedId(i) \notin ReturnedIds
Redelivered(i) == rPhase = "returned" => ExpectedId(i) \in ReturnedIds

\* C4: a record whose submissionId or challengeId is missing or is not a
\* UUID is never published, never reaches the lookup, and is acknowledged.
RouterSkipsInvalidIds ==
    \A i \in RouterRecords :
        rRecords[i].value \in InvalidIdValues =>
            /\ PublishesOf(i) = {}
            /\ rTask[i] = TaskDone(TRUE, FALSE, FALSE)
            /\ Acknowledged(i)

RouterSkipsInvalidIdsWitness ==
    /\ rPhase = "returned"
    /\ \E i \in RouterRecords :
          /\ rRecords[i].value =
                Base64Encode(JSONStringify(SubmissionMsg(Str(SUB1), Str("not-a-uuid"))))
          /\ ExpectedId(i) \notin ReturnedIds

\* C5: every publish is for a challenge whose item exists and is active; a
\* record for an absent or inactive challenge is acknowledged and never
\* published.
RouterPublishesOnlyActive ==
    /\ \A k \in 1..Len(snsCalls) : snsCalls[k].challengeId \in {CH1, CH2}
    /\ \A i \in RouterRecords :
          rRecords[i].value \in RoutingMissValues =>
              /\ PublishesOf(i) = {}
              /\ rTask[i].pc \in {"lookup", "done"}
              /\ rTask[i].pc = "done" => rTask[i].success
              /\ Acknowledged(i)

RouterPublishesOnlyActiveWitness ==
    /\ rPhase = "returned"
    /\ \E i \in RouterRecords :
          /\ rRecords[i].value =
                Base64Encode(JSONStringify(SubmissionMsg(Str(SUB1), Str(CH_INACTIVE))))
          /\ ~rTask[i].lookupError
          /\ ExpectedId(i) \notin ReturnedIds

\* C6: a record whose value cannot be decoded or parsed is acknowledged.
RouterAcknowledgesUnparsable ==
    \A i \in RouterRecords :
        rRecords[i].value \in UnparsableValues => Acknowledged(i)

\* C7: a record whose routing-store lookup failed with an error is listed
\* in batchItemFailures.
RouterFailsOnLookupError ==
    \A i \in RouterRecords : rTask[i].lookupError => Redelivered(i)

\* C8: at most one publish per record; a record that got as far as the
\* publish has exactly one, carrying its message and its challengeId as the
\* attribute; a failed publish is not repeated and the record is reported.
RouterPublishesOnce ==
    \A i \in RouterRecords :
        /\ Cardinality(PublishesOf(i)) <= 1
        /\ (rTask[i].pc = "publish" \/ rTask[i].publishError
              \/ (rTask[i].pc = "done" /\ rRecords[i].value \in ValidValues
                    /\ ~rTask[i].lookupError /\ rTask[i].success)) =>
              /\ Cardinality(PublishesOf(i)) = 1
              /\ \A k \in PublishesOf(i) :
                    /\ snsCalls[k].challengeId = rRecords[i].value.text.parsed.payload.challengeId.s
                    /\ snsCalls[k].Message = rRecords[i].value.text
        /\ rTask[i].publishError => Redelivered(i)

RouterPublishesOnceWitness ==
    /\ rPhase = "returned"
    /\ \E i \in RouterRecords : rTask[i].publishError /\ Cardinality(PublishesOf(i)) = 1
    /\ \E i \in RouterRecords : rTask[i].success /\ Cardinality(PublishesOf(i)) = 1

\* A record's own processing failed: its value could not be decoded or
\* parsed, or its publish threw.
OwnFailure(i) == rRecords[i].value \in UnparsableValues \/ rTask[i].publishError

\* C9: the batch item failures returned are exactly the identifiers of the
\* records whose own processing failed, whatever the interleaving; every
\* record's outcome depends on its own value and its own calls only, and a
\* valid record of an active challenge is published whatever the others do.
RouterPartialBatchFailures ==
    /\ \A i \in RouterRecords :
          /\ rTask[i].pc = "done" => (rTask[i].success <=> ~OwnFailure(i))
          /\ (rTask[i].pc = "done" /\ rRecords[i].value \in ValidValues
                /\ ~rTask[i].lookupError) => Cardinality(PublishesOf(i)) = 1
    /\ rPhase = "returned" =>
          /\ ReturnedIds = { ExpectedId(i) : i \in { j \in RouterRecords : OwnFailure(j) } }
          /\ Len(rReturn) = Cardinality({ j \in RouterRecords : OwnFailure(j) })

RouterPartialBatchFailuresWitness ==
    /\ rPhase = "returned"
    /\ Len(rRecords) >= 2
    /\ \E i, j \in RouterRecords :
          /\ OwnFailure(i)
          /\ ~OwnFailure(j) /\ Cardinality(PublishesOf(j)) = 1
          /\ ReturnedIds = { ExpectedId(i) }

\* Two records of one batch are suspended on their network calls at once.
RouterConcurrentWitness ==
    \E i, j \in RouterRecords : i # j /\ rTask[i].pc = "publish" /\ rTask[j].pc = "lookup"

(***************************************************************************)
(* Properties of the Completion Lambda.                                    *)
(***************************************************************************)
FailedContainers ==
    { <<>>, <<Num(1)>>, <<Num(0), Num(1)>>, <<JsNull>>, <<Undefined>>, <<Num(0), Undefined>> }
QueueOfChallenge(c) == IF c = CH1 THEN QUEUE1 ELSE QUEUE2

\* The last event reported a failure of a job tagged with a known
\* submission, the challenge c whose queue the routing store returned, and
\* RetryCount k.
FailureHandled(c, k) ==
    /\ cLast.invoked
    /\ cLast.detail.containers \in FailedContainers
    /\ cLast.detail.tags.t = "array"
    /\ cLast.detail.tags.ChallengeId = Str(c)
    /\ cLast.detail.tags.SubmissionId = Str(SUB1)
    /\ cLast.detail.tags.RetryCount = Str(ToString(k))
    /\ ~cLast.lookupError

\* C1: a failure with RetryCount k sends exactly one message, to the
\* challenge's queue and with RetryCount k + 1, when k + 1 < maxRetries,
\* and sends nothing when k + 1 >= maxRetries.
RetryBudget ==
    \A c \in {CH1, CH2}, k \in 0..4 :
        FailureHandled(c, k) =>
            IF k + 1 < maxRetries.n
            THEN /\ Len(cLast.sends) = 1
                 /\ cLast.sends[1].QueueUrl = QueueOfChallenge(c)
                 /\ cLast.sends[1].RetryCount = Str(ToString(k + 1))
                 /\ BagCardinality(queues[QueueOfChallenge(c)]) =
                       IF cLast.sendError THEN 0 ELSE 1
                 /\ \A m \in BagToSet(queues[QueueOfChallenge(c)]) :
                       m.RetryCount = Str(ToString(k + 1))
            ELSE /\ cLast.sends = <<>>
                 /\ \A q \in QueueUrls : queues[q] = EmptyBag

RetryBudgetWitness ==
    /\ FailureHandled(CH2, 1)
    /\ Len(cLast.sends) = 1
    /\ BagCardinality(queues[QUEUE2]) = 1

RetryBudgetExhaustedWitness ==
    /\ FailureHandled(CH1, 2)
    /\ cLast.sends = <<>>

(***************************************************************************)
(* Properties of the pipeline.                                             *)
(***************************************************************************)
InFlight == { wRecords[i] : i \in 1..Len(wRecords) }
AllMessages == UNION { BagToSet(queues[q]) : q \in QueueUrls } \cup InFlight \cup BagToSet(dlq)

\* The retry count the Worker reads from a message, as a decimal string.
ExpectedCount(m) == IF m.origin = "router" THEN "0" ELSE ToString(m.cause.n + 1)

\* C2: a message of the Router carries no retry count and is seen with
\* count 0; a retry message carries the count of the failed job plus 1; a
\* job is tagged with the count of the message it was launched from.
RetryCountChain ==
    /\ \A m \in AllMessages :
          /\ m.origin = "router" => m.RetryCount = Undefined
          /\ m.origin = "completion" =>
                /\ ~m.cause.nan /\ m.cause.n >= 0
                /\ m.RetryCount = Str(ExpectedCount(m))
                /\ m.body.parsed.retryInfo.retryCount = Num(m.cause.n + 1)
    /\ \A k \in 1..Len(ecsCalls) :
          /\ ecsCalls[k].tags.RetryCount = Str(ExpectedCount(wRecords[ecsCalls[k].rec]))
          /\ ecsCalls[k].seen = Num(IF wRecords[ecsCalls[k].rec].origin = "router" THEN 0
                                    ELSE wRecords[ecsCalls[k].rec].cause.n + 1)
    /\ \A j \in BagToSet(jobs) : j.tags.RetryCount = Str(ToString(j.seen.n))
    /\ \A n \in BagToSet(notifications) : n.tags.RetryCount = Str(ToString(n.seen.n))

RetryCountChainWitness ==
    \E k \in 1..Len(ecsCalls) :
        /\ ecsCalls[k].tags.RetryCount = Str("2")
        /\ wRecords[ecsCalls[k].rec].origin = "completion"
        /\ wRecords[ecsCalls[k].rec].cause = Num(1)

LaunchTags(i) == { ecsCalls[k].tags : k \in CallsOf(i) }
ScenarioTags(scorerType, count) ==
    [ChallengeId |-> Str(CH1), SubmissionId |-> Str(SUB1),
     ScorerType |-> Str(scorerType), RetryCount |-> Str(count)]
ScenarioFailure(scorerType, count) ==
    /\ cLast.invoked
    /\ cLast.detail.containers = <<Num(1)>>
    /\ cLast.detail.tags = TagArray(ScenarioTags(scorerType, count))

\* C3: the routed message makes the Worker launch two jobs, for a and b,
\* tagged RetryCount 0; the failure (exit code 1) of the job for a makes the
\* Completion Lambda send exactly one retry message with retry count 1 and
\* ScorerType a; the failure of a job for a tagged RetryCount 2 sends none.
EndToEndScenario ==
    /\ \A i \in 1..Len(wResults) :
          wRecords[i].origin = "router" =>
              /\ Cardinality(CallsOf(i)) = 2
              /\ LaunchTags(i) = { ScenarioTags("a", "0"), ScenarioTags("b", "0") }
    /\ ScenarioFailure("a", "0") =>
          /\ Len(cLast.sends) = 1
          /\ cLast.sends[1].RetryCount = Str("1")
          /\ cLast.sends[1].ScorerType = Str("a")
          /\ cLast.sends[1].QueueUrl = QUEUE1
          /\ cLast.sends[1].MessageBody.parsed.retryInfo.retryCount = Num(1)
          /\ cLast.sends[1].MessageBody.parsed.payload.scorerType = Str("a")
    /\ ScenarioFailure("a", "2") => cLast.sends = <<>>

EndToEndScenarioWitness ==
    /\ ScenarioFailure("a", "2")
    /\ cLast.sends = <<>>

EndToEndFirstRetryWitness ==
    /\ ScenarioFailure("a", "0")
    /\ Len(cLast.sends) = 1

EndToEndLaunchWitness ==
    /\ Len(wResults) >= 1
    /\ wRecords[1].origin = "router"
    /\ Cardinality(CallsOf(1)) = 2

(***************************************************************************)
(* Properties of the Worker.                                               *)
(***************************************************************************)
Processed(i) == i \in 1..Len(wResults) \/ (i = wIdx /\ wPc = "join")
ForThisWorker(m) == m.body.json /\ ChallengeIdOf(m.body.parsed) = Str(CH1)
WithinBudget(m) == m.RetryCount \in { Undefined, Str("1"), Str("2") }
AttrCount(m) == IF m.RetryCount = Undefined THEN "0" ELSE m.RetryCount.s
LoadFailed(i) == i \in 1..Len(wResults) /\ wResults[i].outcome = "thrown"
ScorerSet == { ssmScorers[k] : k \in 1..Len(ssmScorers) }

\* Exactly one launch per configured scorer, tagged with the message's
\* submission, the worker's challenge and the message's retry count.
FannedOut(i) ==
    /\ Cardinality(CallsOf(i)) = Len(ssmScorers)
    /\ LaunchTags(i) =
          { [ChallengeId |-> Str(CH1),
             SubmissionId |-> SubmissionIdOf(wRecords[i].body.parsed),
             ScorerType |-> Str(st),
             RetryCount |-> Str(AttrCount(wRecords[i]))] : st \in ScorerSet }

WorkerReturnedIds == { wReturn[k].itemIdentifier : k \in 1..Len(wReturn) }
WorkerAcknowledged(i) ==
    /\ i \in 1..Len(wResults) => wResults[i].success
    /\ wPc = "returned" =>
          /\ WorkerMessageId(i) \notin WorkerReturnedIds
          /\ wRecords[i] \notin BagToSet(queues[QUEUE1]) \cup BagToSet(dlq)
OtherChallenge(m) == m.body.json /\ ChallengeIdOf(m.body.parsed) # Str(CH1)

\* C11: a message whose challengeId is not the worker's is acknowledged (its
\* messageId is not in batchItemFailures and the queue does not get it back)
\* and no job is launched for it, whether it carries no retry count, a retry
\* count within the budget or one beyond it.
WorkerSkipsMisrouted ==
    \A i \in 1..Len(wRecords) :
        OtherChallenge(wRecords[i]) =>
            /\ CallsOf(i) = {}
            /\ i \in 1..Len(wResults) => wResults[i].outcome = "misrouted"
            /\ WorkerAcknowledged(i)

WorkerSkipsMisroutedWitness ==
    /\ wPc = "returned"
    /\ wReturn = <<>>
    /\ \E i \in 1..Len(wRecords) :
          /\ OtherChallenge(wRecords[i])
          /\ wRecords[i].RetryCount = Str("1")
          /\ CallsOf(i) = {}

Exhausted(m) == m.RetryCount \in { Str("3"), Str("4") }

\* C12: a message for the worker's challenge whose retry count is 3
\* (= maxRetries) or more is acknowledged and no job is launched for it.
WorkerSkipsExhausted ==
    \A i \in 1..Len(wRecords) :
        (ForThisWorker(wRecords[i]) /\ Exhausted(wRecords[i])) =>
            /\ CallsOf(i) = {}
            /\ i \in 1..Len(wResults) => wResults[i].outcome = "exhausted"
            /\ WorkerAcknowledged(i)

WorkerSkipsExhaustedWitness ==
    /\ wPc = "returned"
    /\ wReturn = <<>>
    /\ \E i \in 1..Len(wRecords) :
          /\ ForThisWorker(wRecords[i])
          /\ wRecords[i].RetryCount = Str("3")
          /\ CallsOf(i) = {}

Fulfilled(i) == { k \in CallsOf(i) : ecsCalls[k].status = "fulfilled" }
Rejected(i) == { k \in CallsOf(i) : ecsCalls[k].status = "rejected" }
WorkerReported(i) ==
    /\ WorkerMessageId(i) \in WorkerReturnedIds
    /\ wRecords[i] \in BagToSet(queues[QUEUE1]) \cup BagToSet(dlq)

\* C13: when the handler has returned and every launch issued for a message
\* (there is at least one) was rejected, the messageId of the message is in
\* batchItemFailures and the queue has the message back.
WorkerReportsTotalLaunchFailure ==
    \A i \in 1..Len(wRecords) :
        (CallsOf(i) # {} /\ Rejected(i) = CallsOf(i)) =>
            /\ i \in 1..Len(wResults) => ~wResults[i].success
            /\ wPc = "returned" => WorkerReported(i)

WorkerReportsTotalLaunchFailureWitness ==
    /\ wPc = "returned"
    /\ \E i \in 1..Len(wRecords) :
          /\ Cardinality(CallsOf(i)) = 2
          /\ Rejected(i) = CallsOf(i)
          /\ wResults[i].outcome = "allLaunchesFailed"
          /\ WorkerMessageId(i) \in WorkerReturnedIds

\* C14: a message with a launch that was issued and succeeded is
\* acknowledged, never reported failed.
WorkerAcknowledgesPartialLaunch ==
    \A i \in 1..Len(wResults) : Fulfilled(i) # {} => wResults[i].success

SecondInvocationOver ==
    /\ wInvocations = 2
    /\ wPc = "returned"
    /\ Len(authCalls) >= 1
    /\ authCalls[1].status = "ok"

\* C16 as stated: when both invocations are over before the credential
\* expires, the process has fetched a credential exactly once.
CredentialFetchedOnceUntilExpiry ==
    (SecondInvocationOver /\ now < authCalls[1].expiry.n) => Len(authCalls) = 1

\* C16 (amended): when both invocations are over more than
\* TOKEN_EXPIRY_BUFFER_MS before the credential expires, the process has
\* fetched a credential exactly once.
CredentialFetchedOnce ==
    (SecondInvocationOver /\ now < authCalls[1].expiry.n - TOKEN_EXPIRY_BUFFER_MS)
        => Len(authCalls) = 1

CredentialFetchedOnceWitness ==
    /\ SecondInvocationOver
    /\ now = TickMs
    /\ authCalls[1].expiry = Num(900 * 1000)
    /\ Len(authCalls) = 1
    /\ \E k \in 1..Len(ecsCalls) : ecsCalls[k].status = "fulfilled"

(***************************************************************************)
(* Properties of the Completion Lambda: classification and retry message.  *)
(***************************************************************************)
SuccessContainers == { <<Num(0)>>, <<Num(0), Num(0)>> }
NothingSent ==
    /\ cLast.sends = <<>>
    /\ \A q \in QueueUrls : queues[q] = EmptyBag

\* C17: the handler reports success exactly for the events with at least
\* one container whose containers all have exit code 0; an event with no
\* container, or with an exit code that is not 0, is null or is absent,
\* is reported as a failure.
CompletionClassifies ==
    cLast.invoked =>
        /\ cLast.response.success <=> cLast.detail.containers \in SuccessContainers
        /\ cLast.detail.containers \in FailedContainers => ~cLast.response.success

CompletionClassifiesWitness ==
    /\ cLast.invoked
    /\ cLast.detail.containers = <<Num(0), Num(0)>>
    /\ cLast.response.success

CompletionClassifiesFailureWitness ==
    /\ cLast.invoked
    /\ cLast.detail.containers = <<Num(0), Undefined>>
    /\ ~cLast.response.success

\* The tag of the event, Undefined when the event has no tags or not this one.
TagOf(detail, key) == IF detail.tags.t = "array" THEN detail.tags[key] ELSE Undefined
Reported(tag) == IF tag = Undefined THEN Str("unknown") ELSE tag

\* C18: when the event has no tags, or no ChallengeId tag, or no
\* SubmissionId tag, the response reports the missing identifier as
\* "unknown", the routing store is not looked up and no retry message is
\* sent, whatever the containers' exit codes.
CompletionStopsWithoutIdentity ==
    (cLast.invoked
       /\ (TagOf(cLast.detail, "ChallengeId") = Undefined
              \/ TagOf(cLast.detail, "SubmissionId") = Undefined)) =>
        /\ cLast.response.challengeId = Reported(TagOf(cLast.detail, "ChallengeId"))
        /\ cLast.response.submissionId = Reported(TagOf(cLast.detail, "SubmissionId"))
        /\ ~cLast.lookedUp
        /\ NothingSent

CompletionStopsWithoutIdentityWitness ==
    /\ cLast.invoked
    /\ cLast.detail.containers = <<Num(1)>>
    /\ TagOf(cLast.detail, "ChallengeId") = Str(CH1)
    /\ TagOf(cLast.detail, "SubmissionId") = Undefined
    /\ TagOf(cLast.detail, "RetryCount") = Str("0")
    /\ cLast.response.submissionId = Str("unknown")
    /\ NothingSent

\* C19: an event whose containers all exited with code 0 causes no lookup
\* and no retry message, whatever its tags and retry count.
CompletionNoRetryOnSuccess ==
    (cLast.invoked /\ cLast.detail.containers \in SuccessContainers) =>
        /\ ~cLast.lookedUp
        /\ NothingSent

CompletionNoRetryOnSuccessWitness ==
    /\ cLast.invoked
    /\ cLast.detail.containers = <<Num(0), Num(0)>>
    /\ TagOf(cLast.detail, "ChallengeId") = Str(CH2)
    /\ TagOf(cLast.detail, "SubmissionId") = Str(SUB1)
    /\ TagOf(cLast.detail, "RetryCount") = Str("0")
    /\ NothingSent

\* The retry count a RetryCount tag stands for.
TagCount(tag) ==
    CASE tag = Str("1") -> 1
      [] tag = Str("2") -> 2
      [] tag = Str("3") -> 3
      [] OTHER -> 0

\* C20: a retry message goes to the queue the routing store has for the
\* ChallengeId tag; its body carries the ChallengeId, SubmissionId and
\* ScorerType of the tags ("unknown" for a job without a ScorerType tag),
\* retryInfo.retryCount is the RetryCount tag plus 1 and equals the
\* RetryCount attribute, and retryInfo.reason is set; the queue receives
\* exactly this message.
CompletionRetryMessage ==
    (cLast.invoked /\ cLast.sends # <<>>) =>
        LET send == cLast.sends[1]
            body == send.MessageBody.parsed
            count == TagCount(TagOf(cLast.detail, "RetryCount")) + 1
        IN /\ Len(cLast.sends) = 1
           /\ MappingTable(TagOf(cLast.detail, "ChallengeId").s).found
           /\ send.QueueUrl = MappingTable(TagOf(cLast.detail, "ChallengeId").s).queueUrl
           /\ send.MessageBody.json
           /\ body.payload.challengeId = TagOf(cLast.detail, "ChallengeId")
           /\ body.payload.submissionId = TagOf(cLast.detail, "SubmissionId")
           /\ body.payload.scorerType = Reported(TagOf(cLast.detail, "ScorerType"))
           /\ body.retryInfo.retryCount = Num(count)
           /\ send.RetryCount = Str(ToString(count))
           /\ body.retryInfo.reason = "ECS task failed"
           /\ \A q \in QueueUrls :
                 BagToSet(queues[q]) =
                     IF q = send.QueueUrl /\ ~cLast.sendError
                     THEN { SqsMessage(send.MessageBody, send.RetryCount, send.ScorerType,
                                       Undefined, "completion", cLast.detail.seen) }
                     ELSE {}

CompletionRetryMessageWitness ==
    /\ cLast.invoked
    /\ Len(cLast.sends) = 1
    /\ ~cLast.sendError
    /\ TagOf(cLast.detail, "ChallengeId") = Str(CH2)
    /\ TagOf(cLast.detail, "ScorerType") = Str("a")
    /\ TagOf(cLast.detail, "RetryCount") = Str("1")
    /\ cLast.sends[1].QueueUrl = QUEUE2
    /\ cLast.sends[1].RetryCount = Str("2")
    /\ BagCardinality(queues[QUEUE2]) = 1

\* C21: a failure of a job whose challenge has no item in the routing
\* store, or an item without a queue URL, is looked up, no retry message is
\* sent, and the handler returns statusCode 200.
CompletionNoQueueNoRetry ==
    (cLast.invoked
       /\ cLast.detail.containers \in FailedContainers
       /\ TagOf(cLast.detail, "ChallengeId") \in { Str(CH_UNKNOWN), Str(CH_NOQUEUE) }
       /\ TagOf(cLast.detail, "SubmissionId") # Undefined) =>
        /\ cLast.lookedUp
        /\ NothingSent
        /\ cLast.response.statusCode = 200

CompletionNoQueueNoRetryWitness ==
    /\ cLast.invoked
    /\ cLast.detail.containers = <<Num(1)>>
    /\ TagOf(cLast.detail, "ChallengeId") = Str(CH_NOQUEUE)
    /\ TagOf(cLast.detail, "SubmissionId") = Str(SUB1)
    /\ TagOf(cLast.detail, "RetryCount") = Str("0")
    /\ cLast.lookedUp /\ ~cLast.lookupError
    /\ NothingSent
    /\ cLast.response.statusCode = 200

(***************************************************************************)
(* Properties of the pipeline when a submission is routed twice.           *)
(***************************************************************************)
RouterOver == rPhase = "returned" /\ ingress = <<>>

\* C22: each of the two records of the same valid message gets a publish of
\* its own, and the queue holds two messages once the Router is done and
\* before the Worker has run; every message of the Router carries no retry
\* count, is processed by the Worker with retry count 0 and gets launches
\* of its own, tagged RetryCount 0.
NoDedupFreshBudget ==
    /\ \A i \in RouterRecords : rTask[i].pc = "done" => Cardinality(PublishesOf(i)) = 1
    /\ (RouterOver /\ wInvocations = 0) => BagCardinality(queues[QUEUE1]) = 2
    /\ \A m \in AllMessages : m.origin = "router" => m.RetryCount = Undefined
    /\ \A i \in 1..Len(wRecords) :
          wRecords[i].origin = "router" =>
              /\ \A k \in CallsOf(i) :
                    /\ ecsCalls[k].seen = Num(0)
                    /\ ecsCalls[k].tags.RetryCount = Str("0")
              /\ i \in 1..Len(wResults) =>
                    /\ wResults[i].outcome = "launched"
                    /\ Cardinality(CallsOf(i)) = Len(ssmScorers)

NoDedupFreshBudgetWitness ==
    /\ RouterOver
    /\ wPc = "returned"
    /\ Len(wRecords) = 2
    /\ \A i \in 1..2 : wRecords[i].origin = "router" /\ Cardinality(CallsOf(i)) = 1
    /\ \A k \in 1..Len(ecsCalls) :
          ecsCalls[k].status = "fulfilled" /\ ecsCalls[k].tags.RetryCount = Str("0")

(***************************************************************************)
(* Properties of the pipeline: the dead-letter queue.                      *)
(***************************************************************************)
\* Nothing is left to do: no event, message, job or notification is pending
\* and no handler is running.
Quiescent ==
    /\ rPhase = "returned" /\ ingress = <<>>
    /\ wPc \in {"idle", "returned"}
    /\ \A k \in 1..Len(ecsCalls) : ecsCalls[k].status # "pending"
    /\ \A q \in QueueUrls : queues[q] = EmptyBag
    /\ jobs = EmptyBag
    /\ notifications = EmptyBag

\* The last job handled by the Completion Lambda failed with the retry
\* budget used up: RetryCount 2 with maxRetries 3, so no retry was sent.
BudgetExhausted ==
    /\ cLast.invoked
    /\ cLast.detail.containers = <<Num(1)>>
    /\ TagOf(cLast.detail, "RetryCount") = Str("2")
    /\ cLast.sends = <<>>

\* C23: once a job has failed with the retry budget used up and the
\* pipeline has come to rest, the dead-letter queue holds the message.
ExhaustedMessageDeadLettered ==
    (Quiescent /\ BudgetExhausted) => dlq # EmptyBag

(***************************************************************************)
(* Properties of the caches.                                               *)
(***************************************************************************)
ConfigFetchesInFlight ==
    (IF coldStart = "cfgWait" THEN 1 ELSE 0) + (IF wPc = "cfgWait" THEN 1 ELSE 0)
CredentialFetchesInFlight ==
    Cardinality({ k \in 1..Len(authCalls) : authCalls[k].status = "pending" })

\* C24: at most one fetch of the challenge configuration and at most one
\* fetch of the credential is in flight at any time.
CacheRefreshSingleFlight ==
    /\ ConfigFetchesInFlight <= 1
    /\ CredentialFetchesInFlight <= 1

(***************************************************************************)
(* Properties of the Worker: the batch.                                    *)
(***************************************************************************)
WorkerSuspended == wPc \in {"cfgWait", "tokWait", "scWait", "join"}
ItemRunning == wCtx = "record" /\ wPc \in {"rec", "cfg", "cfgWait", "tok", "tokWait", "sc", "scWait", "join"}
ItemStarted(i) == wCtx = "record" /\ i <= wIdx

\* C25 as stated: while an item of the batch is suspended on a network
\* call, every other item of the batch has been started; and the handler
\* reports only when every item has settled.
WorkerBatchParallel ==
    /\ (wCtx = "record" /\ WorkerSuspended) =>
          \A i \in 1..Len(wRecords) : ItemStarted(i)
    /\ wPc \in {"ret", "returned"} => Len(wResults) = Len(wRecords)

\* C25 (amended): the items of the batch are processed one after the other
\* in the order of the batch: while item wIdx runs, the items before it
\* have settled and the items after it have not been started (no launch);
\* the handler reports only when every item has settled, and returns
\* nothing before.
WorkerBatchSequential ==
    /\ ItemRunning =>
          /\ wIdx \in 1..Len(wRecords)
          /\ Len(wResults) = wIdx - 1
          /\ \A i \in (wIdx + 1)..Len(wRecords) : CallsOf(i) = {}
    /\ wPc \in {"ret", "returned"} => Len(wResults) = Len(wRecords)
    /\ wPc # "returned" => wReturn = <<>>

WorkerBatchSequentialWitness ==
    /\ Len(wRecords) = 2
    /\ wIdx = 2
    /\ wPc = "join"
    /\ Len(wResults) = 1
    /\ wResults[1].outcome = "launched"
    /\ \E k \in CallsOf(2) : ecsCalls[k].status = "pending"

(***************************************************************************)
(* Properties of the Completion Lambda over two notifications.             *)
(***************************************************************************)
\* The run handled a failure of a job of a routed challenge with RetryCount
\* k, and neither the lookup nor the send failed.
FailureRun(run, k) ==
    /\ run.invoked
    /\ run.detail.containers \in FailedContainers
    /\ TagOf(run.detail, "ChallengeId") \in {Str(CH1), Str(CH2)}
    /\ TagOf(run.detail, "SubmissionId") # Undefined
    /\ TagCount(TagOf(run.detail, "RetryCount")) = k
    /\ ~run.lookupError
    /\ ~run.sendError
RetryOf(run) ==
    SqsMessage(run.sends[1].MessageBody, run.sends[1].RetryCount, run.sends[1].ScorerType,
               Undefined, "completion", run.detail.seen)
SameNotificationTwice(k) ==
    /\ FailureRun(cPrev, k)
    /\ FailureRun(cLast, k)
    /\ cPrev.detail = cLast.detail

\* C26: when the same failure notification with retry count k, k + 1 below
\* maxRetries, has been handled twice, each invocation has sent one retry
\* message with RetryCount k + 1 and the challenge's queue holds both.
DuplicateNotificationRetriesTwice ==
    \A k \in 0..1 :
        SameNotificationTwice(k) =>
            /\ Len(cPrev.sends) = 1
            /\ Len(cLast.sends) = 1
            /\ cPrev.sends[1].RetryCount = Str(ToString(k + 1))
            /\ cLast.sends[1].RetryCount = Str(ToString(k + 1))
            /\ cLast.sends[1].QueueUrl = QueueOfChallenge(cLast.detail.tags.ChallengeId.s)
            /\ CopiesIn(RetryOf(cLast), queues[cLast.sends[1].QueueUrl]) = 2
DuplicateNotificationRetriesTwiceWitness ==
    /\ SameNotificationTwice(1)
    /\ cLast.detail.tags.ChallengeId = Str(CH2)
    /\ QueueSize(QUEUE2) = 2

(***************************************************************************)
(* The two retry tiers: redelivery by the queue and retry messages.        *)
(***************************************************************************)
\* C27: whatever the number of times the queue has delivered a message, the
\* jobs launched for it are tagged with the retry count of its RetryCount
\* attribute (0 without one), and a message given back to the queue is the
\* message received; a message is reported failed only when its processing
\* threw or all of its launches failed, and a message whose retry count has
\* reached maxRetries is acknowledged.
RetryTiersIndependent ==
    \A i \in 1..Len(wRecords) :
        /\ \A k \in CallsOf(i) : ecsCalls[k].tags.RetryCount = Str(AttrCount(wRecords[i]))
        /\ i \in 1..Len(wResults) =>
              /\ ~wResults[i].success => wResults[i].outcome \in {"thrown", "allLaunchesFailed"}
              /\ (ForThisWorker(wRecords[i]) /\ Exhausted(wRecords[i])) => wResults[i].success
        /\ (wPc = "returned" /\ ~wResults[i].success) =>
              wRecords[i] \in BagToSet(queues[QUEUE1]) \cup BagToSet(dlq)
RetryTiersIndependentWitness ==
    /\ wInvocations = 2
    /\ \E i \in 1..Len(wRecords) :
          /\ wRecords[i].receiveCount = 2
          /\ wRecords[i].RetryCount = Str("1")
          /\ \E k \in CallsOf(i) :
                /\ ecsCalls[k].status = "fulfilled"
                /\ ecsCalls[k].tags.RetryCount = Str("1")

\* The decision the notification alone determines, given the routing store
\* and maxRetries = 3: no message, or the queue and the retry count.
ExpectedDecision(detail) ==
    IF \/ detail.containers \in SuccessContainers
       \/ TagOf(detail, "ChallengeId") \notin {Str(CH1), Str(CH2)}
       \/ TagOf(detail, "SubmissionId") = Undefined
       \/ TagCount(TagOf(detail, "RetryCount")) + 1 >= 3
    THEN <<>>
    ELSE << QueueOfChallenge(TagOf(detail, "ChallengeId").s),
            ToString(TagCount(TagOf(detail, "RetryCount")) + 1) >>
DecisionOf(run) ==
    IF run.sends = <<>> THEN <<>>
    ELSE << run.sends[1].QueueUrl, run.sends[1].RetryCount.s >>
DecidedAlone(run) ==
    (run.invoked /\ ~run.lookupError) =>
        /\ Len(run.sends) <= 1
        /\ DecisionOf(run) = ExpectedDecision(run.detail)

\* C28: whether an invocation sends a retry message, to which queue and with
\* which retry count is determined by its notification (the routing store
\* answering): it is the same whether the notification is handled first or
\* second, whatever the other notification is and whatever was sent for it.
RetryDecisionStateless ==
    /\ DecidedAlone(cLast)
    /\ DecidedAlone(cPrev)
RetryDecisionStatelessWitness ==
    /\ cPrev.invoked
    /\ cLast.invoked
    /\ cPrev.detail # cLast.detail
    /\ DecisionOf(cPrev) = <<QUEUE1, "1">>
    /\ DecisionOf(cLast) = <<QUEUE1, "2">>
    /\ QueueSize(QUEUE1) = 2

(***************************************************************************)
(* The Completion Lambda's response.                                       *)
(***************************************************************************)
Malformed(detail) ==
    \/ detail.tags = NullTagArray
    \/ detail.containers \in { <<NullElement>>, <<Num(0), NullElement>> }

\* C29: every invocation returns: it does not throw, its response has
\* statusCode 200, or 500 when the event has a null tag or a null container
\* that is read, also when the routing lookup or the send of the retry
\* message failed, and the event is not left for another invocation.
CompletionTerminal ==
    cLast.invoked =>
        /\ ~cLast.threw
        /\ cLast.response.statusCode = IF Malformed(cLast.detail) THEN 500 ELSE 200
        /\ (cLast.lookupError \/ cLast.sendError) => cLast.response.statusCode = 200
        /\ cLast.response.statusCode = 500 => NothingSent
        /\ notifications = EmptyBag
CompletionTerminalWitness ==
    /\ cLast.invoked
    /\ cLast.sendError
    /\ cLast.response.statusCode = 200
    /\ notifications = EmptyBag

(***************************************************************************)
(* The refresh rule of the credential cache.                               *)
(***************************************************************************)
\* A credential is cached and the clock is more than 5 minutes before its
\* expiry.
CredentialFresh ==
    /\ tokenCache # JsNull
    /\ tokenExpiry # JsNull
    /\ now < tokenExpiry.n - 5 * 60 * 1000
GetAccessTokenStep == wPc = "tok" /\ wPc' # "tok"
TokenAnswerStep ==
    /\ wPc = "tokWait"
    /\ wPc' # "tokWait"
    /\ authCalls'[Len(authCalls')].status = "ok"
LifetimesMs == { 900 * 1000, 86400 * 1000 }

\* C30: a call of getAccessToken sends no request and leaves the cache as
\* it is exactly when a credential is cached and now < expiry - 5 minutes;
\* otherwise it sends a request at the current time, and the answer
\* replaces the cached value and sets the expiry to the time of the answer
\* plus the credential's lifetime.
CredentialRefreshRule ==
    [][ /\ GetAccessTokenStep =>
              IF CredentialFresh
              THEN /\ authCalls' = authCalls
                   /\ tokenCache' = tokenCache
                   /\ tokenExpiry' = tokenExpiry
                   /\ wPc' # "tokWait"
              ELSE /\ Len(authCalls') = Len(authCalls) + 1
                   /\ authCalls'[Len(authCalls')].at = now
                   /\ authCalls'[Len(authCalls')].status = "pending"
                   /\ wPc' = "tokWait"
        /\ TokenAnswerStep =>
              /\ tokenCache' = Str("access-token")
              /\ tokenExpiry'.n - now \in LifetimesMs
              /\ authCalls'[Len(authCalls')].expiry = tokenExpiry'
      ]_vars
CredentialRefreshRuleWitness ==
    /\ Len(authCalls) = 2
    /\ authCalls[1].status = "ok"
    /\ authCalls[1].expiry = Num(900 * 1000)
    /\ authCalls[2].at = 900 * 1000 - 5 * 60 * 1000
    /\ authCalls[2].status = "ok"
    /\ tokenExpiry = Num(authCalls[2].at + 900 * 1000)

(***************************************************************************)
(* The Worker and the tasks it has launched.                               *)
(***************************************************************************)
LaunchesSettled ==
    /\ wPc = "join"
    /\ \A k \in CallsOf(wIdx) : ecsCalls[k].status # "pending"
TaskStep == jobs' # jobs /\ ecsCalls' = ecsCalls

\* C31: once every launch call of a message has been acknowledged or
\* rejected the Worker can settle the message, whether or not launched
\* tasks are running; and the stop of a task and its completion
\* notification change nothing of the Worker's state.
WorkerFireAndForget ==
    /\ [](LaunchesSettled => ENABLED WorkerJoin)
    /\ [][(TaskStep \/ cLast' # cLast) => UNCHANGED workerVars]_vars
WorkerFireAndForgetWitness ==
    /\ wPc = "returned"
    /\ wReturn = <<>>
    /\ wResults[1].outcome = "launched"
    /\ BagCardinality(jobs) = 2
    /\ notifications = EmptyBag
    /\ ~cLast.invoked

(***************************************************************************)
(* The Worker when its configuration or its credential cannot be loaded.   *)
(***************************************************************************)
\* Every load of the challenge configuration, or every fetch of the
\* credential, has failed in this process.
LoadsUnavailable == challengeConfigCache = JsNull \/ tokenCache = JsNull

\* C32: while the challenge configuration or the credential has never been
\* loaded, the handler goes through the whole batch; no job is launched; a
\* message for the worker's key and within the retry budget is reported in
\* batchItemFailures and given back to the queue; a misrouted message and a
\* message whose retry budget is exhausted are acknowledged.
WorkerWithoutLoads ==
    LoadsUnavailable =>
        /\ wPc = "returned" => Len(wResults) = Len(wRecords)
        /\ \A i \in 1..Len(wRecords) :
              /\ CallsOf(i) = {}
              /\ (ForThisWorker(wRecords[i]) /\ WithinBudget(wRecords[i])) =>
                    /\ i \in 1..Len(wResults) => ~wResults[i].success
                    /\ wPc = "returned" => WorkerReported(i)
              /\ (OtherChallenge(wRecords[i])
                    \/ (ForThisWorker(wRecords[i]) /\ Exhausted(wRecords[i]))) =>
                    WorkerAcknowledged(i)
WorkerWithoutLoadsWitness ==
    /\ challengeConfigCache # JsNull
    /\ tokenCache = JsNull
    /\ wPc = "returned"
    /\ Len(wRecords) = 2
    /\ ForThisWorker(wRecords[1]) /\ wRecords[1].RetryCount = Str("1")
    /\ ForThisWorker(wRecords[2]) /\ Exhausted(wRecords[2])
    /\ wReturn = << [itemIdentifier |-> WorkerMessageId(1)] >>

(***************************************************************************)
(* Properties of the pipeline: the range of the retry counts.              *)
(***************************************************************************)
JobCounts == { "0", "1", "2" }
RetryCounts == { "1", "2" }

\* C33: along the runs of one routed message, every RunTask call, every
\* running job and every completion event is tagged with a RetryCount in
\* 0..maxRetries - 1, every retry message carries a RetryCount attribute and
\* a body retry count in 1..maxRetries - 1, and the Worker never drops a
\* message because its retry count has reached maxRetries.
RetryCountsInRange ==
    /\ \A k \in 1..Len(ecsCalls) : ecsCalls[k].tags.RetryCount \in { Str(c) : c \in JobCounts }
    /\ \A j \in BagToSet(jobs) : j.tags.RetryCount \in { Str(c) : c \in JobCounts }
    /\ \A n \in BagToSet(notifications) : n.tags.RetryCount \in { Str(c) : c \in JobCounts }
    /\ \A m \in AllMessages :
          m.origin = "completion" =>
              /\ m.RetryCount \in { Str(c) : c \in RetryCounts }
              /\ m.body.parsed.retryInfo.retryCount \in { Num(1), Num(2) }
    /\ \A i \in 1..Len(wResults) : wResults[i].outcome # "exhausted"
RetryCountsInRangeWitness ==
    /\ wPc = "returned"
    /\ Len(wRecords) = 1
    /\ wRecords[1].origin = "completion"
    /\ wRecords[1].RetryCount = Str("2")
    /\ wResults[1].outcome = "launched"
    /\ \E j \in BagToSet(jobs) : j.tags.RetryCount = Str("2")

(***************************************************************************)
(* Termination of the pipeline.                                            *)
(***************************************************************************)
\* A message makes the Worker launch one task per scorer, n tasks, and each
\* failed task below the budget one message: n + n^2 + n^3 tasks with
\* maxRetries = 3.
LaunchBound(n) == n + n * n + n * n * n

RetryLaunchesFailedScorerOnly ==
    \A k \in 1..Len(ecsCalls) :
        wRecords[ecsCalls[k].rec].origin = "completion" =>
            ecsCalls[k].tags.ScorerType = wRecords[ecsCalls[k].rec].ScorerType

(***************************************************************************)
(* The Completion Lambda's report of the retry.                            *)
(***************************************************************************)
RetrySent(run) == run.sends # <<>> /\ ~run.sendError

\* C36: the response's retryQueued is true exactly when the invocation has
\* sent a retry message.
RetryQueuedMeansSent ==
    cLast.invoked => (cLast.response.retryQueued <=> RetrySent(cLast))

(***************************************************************************)
(* The retry budget under any RetryCount.                                  *)
(***************************************************************************)
\* C37: whatever the RetryCount attribute of the message, the retry
\* messages sent along its chain of failed jobs number at most
\* maxRetries - 1.
RetryBudgetAnyCount == retriesSent <= maxRetries.n - 1

(***************************************************************************)
(* Properties of the pipeline: the identity carried along the chain.       *)
(***************************************************************************)
CarriesIdentity(tags) ==
    /\ tags.ChallengeId = Str(CH1)
    /\ tags.SubmissionId = Str(SUB1)

\* C38: every RunTask call, job and completion event of the routed message
\* (submission SUB1, challenge CH1) is tagged with its ChallengeId and
\* SubmissionId; every retry message is on the queue of CH1 or with its
\* Worker, carries both identifiers in its payload, and the Worker never
\* drops a message as misrouted.
IdentityPreserved ==
    /\ \A k \in 1..Len(ecsCalls) : CarriesIdentity(ecsCalls[k].tags)
    /\ \A j \in BagToSet(jobs) : CarriesIdentity(j.tags)
    /\ \A n \in BagToSet(notifications) : CarriesIdentity(n.tags)
    /\ \A q \in QueueUrls \ {QUEUE1} : queues[q] = EmptyBag
    /\ \A m \in AllMessages :
          /\ ChallengeIdOf(m.body.parsed) = Str(CH1)
          /\ SubmissionIdOf(m.body.parsed) = Str(SUB1)
    /\ \A i \in 1..Len(wResults) : wResults[i].outcome # "misrouted"
IdentityPreservedWitness ==
    /\ wPc = "join"
    /\ wRecords[wIdx].origin = "completion"
    /\ wRecords[wIdx].RetryCount = Str("1")
    /\ \E k \in CallsOf(wIdx) :
          /\ ecsCalls[k].status = "pending"
          /\ CarriesIdentity(ecsCalls[k].tags)
          /\ ecsCalls[k].tags.RetryCount = Str("1")

(***************************************************************************)
(* The caches after a failed fetch.                                        *)
(***************************************************************************)
\* The answer to the request for the challenge configuration is an error:
\* the next position is not the one of a loaded configuration.
ConfigFetchFails == wPc = "cfgWait" /\ wPc' \notin {"cfgWait", "tok"}
\* The answer to the request for a scorer configuration is an error: no
\* task is launched.
ScorerFetchFails == wPc = "scWait" /\ wPc' # "scWait" /\ ecsCalls' = ecsCalls
CredentialFetchFails ==
    /\ wPc = "tokWait"
    /\ wPc' # "tokWait"
    /\ authCalls'[Len(authCalls')].status = "failed"
CurrentScorer == ScorersOf(challengeConfigCache)[wScIdx]

\* C39: a failed fetch of the challenge configuration, of a scorer
\* configuration or of the credential leaves the three caches as they
\* were; the next call of a loader whose entry is empty sends a request
\* again; and once the challenge configuration is cached no request for it
\* is sent and its cached value does not change.
FailedFetchKeepsCache ==
    [][ /\ (ConfigFetchFails \/ ScorerFetchFails \/ CredentialFetchFails) =>
              UNCHANGED cacheVars
        /\ (wPc = "cfg" /\ wPc' # "cfg") =>
              (wPc' = "cfgWait" <=> challengeConfigCache = JsNull)
        /\ (wPc = "sc" /\ wPc' # "sc") =>
              (wPc' = "scWait" <=> CurrentScorer \notin scorerConfigsCache)
        /\ (wPc = "tok" /\ wPc' # "tok" /\ tokenCache = JsNull) => wPc' = "tokWait"
        /\ challengeConfigCache # JsNull =>
              /\ challengeConfigCache' = challengeConfigCache
              /\ wPc # "cfgWait" => wPc' # "cfgWait"
      ]_vars
FailedFetchKeepsCacheWitness ==
    /\ Len(authCalls) = 2
    /\ authCalls[1].status = "failed"
    /\ authCalls[2].status = "ok"
    /\ tokenCache = Str("access-token")
    /\ challengeConfigCache # JsNull
    /\ Len(wResults) >= 1
    /\ wResults[1].outcome = "thrown"
====
